---------------------------- MODULE Spec2Model ----------------------------
(***************************************************************************)
(* Model of the auto hedger of the IB trading dashboard                    *)
(* (src/components/auto_hedger.py, src/components/ib_connection.py).       *)
(*                                                                         *)
(* Amounts of delta (target, threshold, aggregate delta, delta difference) *)
(* are exact rationals kept as integers in tenths of a share; per-contract *)
(* deltas are kept in thousandths.  Python's float rounding error is not   *)
(* modelled.                                                               *)
(***************************************************************************)
EXTENDS Integers, Sequences, FiniteSets, TLC

(***************************************************************************)
(* Arithmetic helpers                                                      *)
(***************************************************************************)
Abs(x) == IF x < 0 THEN -x ELSE x

Sign(x) == IF x > 0 THEN 1 ELSE IF x < 0 THEN -1 ELSE 0

\* Python int(n / d) for a rational n/d (d # 0): truncation toward zero.
TruncDiv(n, d) == Sign(n) * Sign(d) * (Abs(n) \div Abs(d))

\* Python round(n / d) for a rational n/d (d # 0): nearest integer, a tie
\* going to the even neighbour.
RoundDiv(n, d) ==
    LET a == Abs(n)
        b == Abs(d)
        q == a \div b
        r == a % b
        m == IF 2 * r > b THEN q + 1
             ELSE IF 2 * r < b THEN q
             ELSE IF q % 2 = 0 THEN q ELSE q + 1
    IN  Sign(n) * Sign(d) * m

Min(a, b) == IF a < b THEN a ELSE b

Max(a, b) == IF a > b THEN a ELSE b

(***************************************************************************)
(* Position keys.  A key is a Python str; KeyChars gives its characters so *)
(* that the parsing code can be modelled character by character.           *)
(***************************************************************************)
StockKey == "QQQ"

CallKey == "QQQ   241101C00100000"

PutKey == "QQQ   241101P00100000"

\* A stock ticker that holds the letter P
TickerKey == "SPY"

KeyChars(k) ==
    CASE k = StockKey -> <<"Q", "Q", "Q">>
      [] k = CallKey  -> <<"Q", "Q", "Q", " ", " ", " ", "2", "4", "1", "1", "0", "1",
                           "C", "0", "0", "1", "0", "0", "0", "0", "0">>
      [] k = PutKey   -> <<"Q", "Q", "Q", " ", " ", " ", "2", "4", "1", "1", "0", "1",
                           "P", "0", "0", "1", "0", "0", "0", "0", "0">>
      [] k = TickerKey -> <<"S", "P", "Y">>
      [] k = ""       -> << >>

Digits == {"0", "1", "2", "3", "4", "5", "6", "7", "8", "9"}

DigitVal(c) ==
    CASE c = "0" -> 0 [] c = "1" -> 1 [] c = "2" -> 2 [] c = "3" -> 3 [] c = "4" -> 4
      [] c = "5" -> 5 [] c = "6" -> 6 [] c = "7" -> 7 [] c = "8" -> 8 [] c = "9" -> 9

\* c in s, for a str s given by its characters
Contains(s, c) == \E i \in 1..Len(s) : s[i] = c

\* Python s[a:] and s[:b] with 0-based bounds, on a character sequence
SliceFrom(s, a) == IF a >= Len(s) THEN << >> ELSE SubSeq(s, a + 1, Len(s))

SliceTo(s, b) == IF b >= Len(s) THEN s ELSE SubSeq(s, 1, b)

\* str.split(): the maximal runs of non-blank characters
RECURSIVE SplitFrom(_, _, _)
SplitFrom(s, i, cur) ==
    IF i > Len(s) THEN (IF cur = << >> THEN << >> ELSE <<cur>>)
    ELSE IF s[i] = " "
         THEN (IF cur = << >> THEN << >> ELSE <<cur>>) \o SplitFrom(s, i + 1, << >>)
         ELSE SplitFrom(s, i + 1, Append(cur, s[i]))

Split(s) == SplitFrom(s, 1, << >>)

\* float(s) of a digit string, as the integer it denotes; -1 when float() raises
RECURSIVE DigitsValue(_)
DigitsValue(s) ==
    IF s = << >> THEN 0 ELSE 10 * DigitsValue(SubSeq(s, 1, Len(s) - 1)) + DigitVal(s[Len(s)])

ParseFloat(s) ==
    IF s # << >> /\ \A i \in 1..Len(s) : s[i] \in Digits THEN DigitsValue(s) ELSE -1

\* None, where a contract is expected
NoContract ==
    [secType |-> "NONE", symbol |-> << >>, localSymbol |-> << >>, right |-> "",
     strike |-> 0, multiplier |-> 0, conId |-> 0]

\* None, where the IV calculator's parser returns a dict
NoOptionData == [underlying |-> << >>, expiry |-> << >>, right |-> "", strike |-> -1]

\* str.split(" "): the pieces between single blanks, empty ones included
RECURSIVE SplitOnBlank(_, _, _)
SplitOnBlank(s, i, cur) ==
    IF i > Len(s) THEN <<cur>>
    ELSE IF s[i] = " " THEN <<cur>> \o SplitOnBlank(s, i + 1, << >>)
         ELSE SplitOnBlank(s, i + 1, Append(cur, s[i]))

\* The dict parse_option_symbol returns, from the pieces of the symbol
OptionData(parts) ==
    IF Len(parts) < 2 THEN NoContract
    ELSE LET date_str == SliceTo(parts[2], 6)
             detail   == SliceFrom(parts[2], 6)
         IN  IF detail = << >> THEN NoContract
             ELSE IF ParseFloat(SliceFrom(detail, 1)) = -1 THEN NoContract
             ELSE [secType |-> "OPT",
                   symbol |-> parts[1],
                   lastTradeDateOrContractMonth |-> <<"2", "0">> \o date_str,
                   strike |-> ParseFloat(SliceFrom(detail, 1)),
                   right |-> detail[1],
                   multiplier |-> 100]

\* parse_option_symbol with the symbol split at every single blank
parse_option_symbol_single_blank(symbol) == OptionData(SplitOnBlank(symbol, 1, << >>))

\* parse_option_symbol (auto_hedger): the dict it returns, or NoContract for
\* None; symbol is the str by its characters.  The strike is kept in
\* thousandths (the digits of the key), i.e. strike * 1000.
parse_option_symbol(symbol) == OptionData(Split(symbol))

\* define_stock_contract: Stock(symbol, exchange, currency).  The contract is
\* not qualified: localSymbol and conId keep their defaults.
define_stock_contract(symbol) ==
    [secType |-> "STK", symbol |-> KeyChars(symbol), localSymbol |-> << >>, right |-> "",
     strike |-> 0, multiplier |-> 0, conId |-> 0]

\* create_contract_from_key: Option(**option_data) for a key holding a C or a P
\* (None when the key does not parse), a Stock otherwise.  The Option is not
\* qualified: localSymbol and conId keep their defaults.
create_contract_from_key(position_key) ==
    IF Contains(KeyChars(position_key), "C") \/ Contains(KeyChars(position_key), "P")
    THEN LET option_data == parse_option_symbol(KeyChars(position_key))
         IN  IF option_data.secType = "NONE" THEN NoContract
             ELSE [secType |-> "OPT", symbol |-> option_data.symbol, localSymbol |-> << >>,
                   right |-> option_data.right, strike |-> option_data.strike,
                   multiplier |-> option_data.multiplier, conId |-> 0]
    ELSE define_stock_contract(position_key)

\* hedge_position, lines 265-271: the contract the evaluation trades
ResolveContract(position_key) ==
    IF Contains(KeyChars(position_key), "C") \/ Contains(KeyChars(position_key), "P")
    THEN create_contract_from_key(position_key)
    ELSE define_stock_contract(position_key)

\* ResolveContract of every key, computed once
ContractOfKey == [k \in {StockKey, CallKey, PutKey, TickerKey} |-> ResolveContract(k)]

HedgingContract(position_key) == ContractOfKey[position_key]

\* isinstance(contract, Option)
IsOption(contract) == contract.secType = "OPT"

\* contract.localSymbol if isinstance(contract, Option) else contract.symbol
Identifier(contract) == IF IsOption(contract) THEN contract.localSymbol ELSE contract.symbol

(***************************************************************************)
(* The broker's instruments: the qualified contracts that positions and    *)
(* orders entered outside the hedger carry.                                *)
(***************************************************************************)
Instruments == {"STK", "CALL", "PUT"}

BrokerContract(instr) ==
    CASE instr = "STK"  -> [secType |-> "STK", symbol |-> KeyChars(StockKey),
                            localSymbol |-> KeyChars(StockKey), right |-> "",
                            strike |-> 0, multiplier |-> 0, conId |-> 1]
      [] instr = "CALL" -> [secType |-> "OPT", symbol |-> KeyChars(StockKey),
                            localSymbol |-> KeyChars(CallKey), right |-> "C",
                            strike |-> 100000, multiplier |-> 100, conId |-> 2]
      \* a put whose contract carries no multiplier (multiplier == '')
      [] instr = "PUT"  -> [secType |-> "OPT", symbol |-> KeyChars(StockKey),
                            localSymbol |-> KeyChars(PutKey), right |-> "P",
                            strike |-> 100000, multiplier |-> 0, conId |-> 3]

\* The instrument an order for the hedging contract of a key is routed to
InstrOfKey(k) ==
    IF k = StockKey THEN "STK" ELSE IF k = CallKey THEN "CALL"
    ELSE IF k = PutKey THEN "PUT" ELSE "NONE"

(***************************************************************************)
(* Bounds of the model                                                     *)
(***************************************************************************)
\* polling threads started in one run
MaxThreads == 2

\* orders the broker holds in one run
MaxOrders == 2

\* add_alert and log_message calls the loops make in a run of the alert sink
MaxCalls == 3

\* blanks between the two parts of an option symbol
MaxBlanks == 3

\* bars the broker returns for one request of historical data
MaxBars == 20

\* seconds the clock of the get_delta calls runs
MaxClock == 6

(***************************************************************************)
(* Program constants                                                       *)
(***************************************************************************)
\* run_auto_hedger: maximum consecutive errors before stopping
max_errors == 3

\* get_delta: multiplier of a contract that carries none
DefaultMultiplier == 100

\* hedge_log = deque(maxlen=100)
hedge_log_maxlen == 100

\* alert_queue = queue.Queue(maxsize=100)
alert_queue_maxsize == 100

\* recent_alerts = deque(maxlen=20)
recent_alerts_maxlen == 20

\* calculate_iv: sigma_low = 0.0001, in units of 1e-8
sigma_low_bound == 10000

\* calculate_iv: sigma_high = 5.0, in units of 1e-8
sigma_high_bound == 500000000

\* calculate_iv: tolerance = 0.00001, in price units of 1e-11
tolerance == 1000000

\* calculate_iv: max_iterations
max_iterations == 100

\* calculate_iv, line 115: the width 1e-7 below which the bisection stops, in
\* units of 1e-8
min_interval == 10

\* has_pending_orders: the statuses of a working order
order_statuses == {"Submitted", "PreSubmitted", "PendingSubmit"}

\* Along the life of an order the broker moves its status forward only
StatusRank(st) ==
    CASE st = "PendingSubmit" -> 0
      [] st = "PreSubmitted"  -> 1
      [] st = "Submitted"     -> 2
      [] st = "Filled"        -> 3
      [] st = "Cancelled"     -> 3

OrderStatuses == {"PendingSubmit", "PreSubmitted", "Submitted", "Filled", "Cancelled"}

(***************************************************************************)
(* State                                                                   *)
(***************************************************************************)
VARIABLES
    hedger_status,              \* dict: position key -> bool
    threads,                    \* the run_auto_hedger threads started so far
    start_result,               \* what the last start_auto_hedger call returned
    position_var,               \* the dashboard's selected position key
    entries,                    \* the dashboard's entry fields (target, threshold, max qty)
    positions,                  \* ib.positions(): sequence of [instr, qty]
    trades,                     \* the broker session's trades, oldest first
    price,                      \* market price of the underlying's portfolio item; 0: no item
    market_data_cache,          \* conId -> delta, the entries younger than the cache time
    last_market_data_request,   \* the conIds requested less than the cache time ago
    faulty,                     \* whether broker calls may raise in this run
    single,                     \* whether the run starts one thread only
    alert_queue,                \* queue.Queue of alerts, oldest first
    recent_alerts,              \* deque of alerts, oldest first
    hedge_log,                  \* deque of log messages, oldest first
    callers,                    \* the loops calling add_alert and log_message
    created,                    \* alerts created so far; an alert is its number
    logged,                     \* messages logged so far; a message is its number
    parser,                     \* an option symbol and what the two parsers made of it
    iv_calc,                    \* a calculate_iv call: its inputs, locals and result
    rv_calc,                    \* a realized volatility call: its inputs, locals and result
    conn,                       \* a connect_ib call: the session, its locals and result
    delta_calc,                 \* calculate_theoretical_delta at two prices of one contract
    cache_run                   \* get_delta calls on one option contract, and the clock

vars == <<hedger_status, threads, start_result, position_var, entries, positions, trades,
          price, market_data_cache, last_market_data_request, faulty, single,
          alert_queue, recent_alerts, hedge_log, callers, created, logged, parser,
          iv_calc, rv_calc, conn, delta_calc, cache_run>>

sink_vars == <<alert_queue, recent_alerts, hedge_log, callers, created, logged>>

\* The state of the calculators (iv_calculator.py, rv_calculator.py) and of
\* the calls of ib_connection.py that are followed on their own
calc_vars == <<parser, iv_calc, rv_calc, conn, delta_calc, cache_run>>

\* The calls of ib_connection.py that are followed on their own
call_vars == <<conn, delta_calc, cache_run>>

ui_vars == <<position_var, entries, faulty, single>>

broker_vars == <<positions, trades, price>>

cache_vars == <<market_data_cache, last_market_data_request>>

(***************************************************************************)
(* The pure parts of the hedger                                            *)
(***************************************************************************)
\* The contract a trade carries: an order placed by the hedger keeps the
\* contract object the hedger built (ib.placeOrder stores the object it is
\* given); any other order carries the broker's qualified contract.
TradeContract(tr) == IF tr.own THEN HedgingContract(tr.key) ELSE BrokerContract(tr.instr)

\* has_pending_orders, lines 86-94: the open trades counted as pending for symbol
PendingTrades(symbol, current_orders) ==
    {i \in 1..Len(current_orders) :
        /\ current_orders[i].status \in order_statuses
        /\ LET contract == TradeContract(current_orders[i])
           IN  \/ IsOption(contract) /\ contract.localSymbol = symbol
               \/ contract.symbol = symbol}

\* has_pending_orders(symbol); raised: ib.openTrades() raised, which the
\* function catches, returning False
has_pending_orders(symbol, current_orders, raised) ==
    IF raised THEN FALSE ELSE PendingTrades(symbol, current_orders) # {}

\* get_current_positions without the test of line 195: every position of the
\* account would be taken for a position of the key
get_current_positions_unfiltered(position_key, all_positions, raised) ==
    IF raised THEN << >> ELSE all_positions

\* get_current_positions(position_key); raised: ib.positions() raised, which
\* the function catches, returning []
get_current_positions(position_key, all_positions, raised) ==
    IF raised THEN << >>
    ELSE SelectSeq(all_positions,
                   LAMBDA pos : Identifier(BrokerContract(pos.instr)) = KeyChars(position_key))

\* calculate_theoretical_delta without the min and max that bound the adjustment
calculate_theoretical_delta_unclamped(contract, market_price) ==
    IF contract.strike = 0 THEN 0
    ELSE LET strike == contract.strike
             num    == market_price - strike
             adj    == Sign(num) * ((300 * Abs(num)) \div strike)
         IN  IF contract.right = "C"
             THEN IF num > 0 THEN 850 + adj ELSE IF num < 0 THEN 150 + adj ELSE 500
             ELSE IF num < 0 THEN -850 + adj ELSE IF num > 0 THEN -150 + adj ELSE -500

\* calculate_theoretical_delta, in thousandths; strike and market_price in
\* thousandths of the currency.  The prices of the hedger's runs make
\* moneyness * 0.3 a whole number of thousandths; for other prices the
\* adjustment is cut to whole thousandths, toward zero.
calculate_theoretical_delta(contract, market_price) ==
    IF contract.strike = 0 THEN 0
    ELSE LET strike == contract.strike
             num    == market_price - strike        \* moneyness = num / strike
             adj    == Sign(num) * ((300 * Abs(num)) \div strike)
         IN  IF contract.right = "C"
             THEN IF num > 0 THEN 850 + Min(150, adj)
                  ELSE IF num < 0 THEN 150 + Max(-100, adj)
                  ELSE 500
             ELSE IF num < 0 THEN -850 + Max(-150, adj)
                  ELSE IF num > 0 THEN -150 + Min(100, adj)
                  ELSE -500

\* get_cached_market_data(contract_id) returns a delta.  An entry older than
\* MARKET_DATA_CACHE_TIME is never read again and is overwritten by the next
\* one: cache holds the younger entries only.
HasCachedMarketData(cache, contract_id) == contract_id \in DOMAIN cache

\* can_request_market_data(contract_id): its result; last holds the contracts
\* requested less than MARKET_DATA_CACHE_TIME ago
can_request_market_data(last, contract_id) == contract_id \notin last

\* f with f[k] = v set, as a dict assignment does
Assign(f, k, v) == [x \in DOMAIN f \cup {k} |-> IF x = k THEN v ELSE f[x]]

\* get_delta, lines 186-213: the per-contract delta (thousandths) an option
\* position is valued with, and the caches after the call
ContractDelta(contract, cache, last, stock_price) ==
    IF HasCachedMarketData(cache, contract.conId)
    THEN [delta |-> cache[contract.conId], cache |-> cache, last |-> last]
    ELSE IF can_request_market_data(last, contract.conId)
         THEN IF stock_price # 0
              THEN LET d == calculate_theoretical_delta(contract, stock_price)
                   IN  [delta |-> d,
                        cache |-> Assign(cache, contract.conId, d),
                        last  |-> last \cup {contract.conId}]
              ELSE [delta |-> IF contract.right = "C" THEN 500 ELSE -500,
                    cache |-> cache, last |-> last \cup {contract.conId}]
         ELSE [delta |-> IF contract.right = "C" THEN 500 ELSE -500,
               cache |-> cache, last |-> last]

\* get_delta with the size of the position in place of the signed position:
\* a short stock position valued as a long one
get_delta_unsigned(pos, cache, last, stock_price) ==
    [delta |-> 10 * Abs(pos.qty), cache |-> cache, last |-> last, contract_delta |-> 0]

\* hasattr(contract, "multiplier"): every contract of the broker library has
\* the attribute, an empty one (0 here) when the contract carries no multiplier
HasMultiplierAttr(contract) == "multiplier" \in DOMAIN contract

\* get_delta(position, ib): the position's delta in tenths of a share, the
\* caches after the call, and the per-contract delta it valued an option with.
\* Line 216: float(contract.multiplier) raises for an empty multiplier, and the
\* handler of line 223 returns 0.0 with the caches as the call left them.
get_delta(pos, cache, last, stock_price) ==
    LET contract == BrokerContract(pos.instr)
    IN  IF contract.secType = "STK"
        THEN [delta |-> 10 * pos.qty, cache |-> cache, last |-> last, contract_delta |-> 0]
        ELSE IF contract.secType = "OPT"
        THEN LET cd == ContractDelta(contract, cache, last, stock_price)
                 multiplier == IF HasMultiplierAttr(contract) THEN contract.multiplier
                               ELSE DefaultMultiplier
             IN  IF HasMultiplierAttr(contract) /\ contract.multiplier = 0
                 THEN [delta |-> 0, cache |-> cd.cache, last |-> cd.last,
                       contract_delta |-> cd.delta]
                 ELSE [delta |-> (pos.qty * cd.delta * multiplier) \div 100,
                       cache |-> cd.cache, last |-> cd.last, contract_delta |-> cd.delta]
        ELSE [delta |-> 0, cache |-> cache, last |-> last, contract_delta |-> 0]

\* The sum of line 288 with the first position only
SumDeltasFirst(poss, cache, last, stock_price) ==
    IF poss = << >>
    THEN [delta |-> 0, cache |-> cache, last |-> last, contract_delta |-> 0]
    ELSE get_delta(Head(poss), cache, last, stock_price)

\* hedge_position, line 288: sum(get_delta(pos, ib) for pos in positions), the
\* calls made in order; contract_delta: the per-contract delta of the first call
RECURSIVE SumDeltas(_, _, _, _)
SumDeltas(poss, cache, last, stock_price) ==
    IF poss = << >>
    THEN [delta |-> 0, cache |-> cache, last |-> last, contract_delta |-> 0]
    ELSE LET first == get_delta(Head(poss), cache, last, stock_price)
             rest  == SumDeltas(Tail(poss), first.cache, first.last, stock_price)
         IN  [delta |-> first.delta + rest.delta, cache |-> rest.cache, last |-> rest.last,
              contract_delta |-> first.contract_delta]

\* The comparison of line 297 made inclusive: a difference equal to the
\* threshold would hedge too
ExceedsThresholdInclusive(delta_difference, delta_change_threshold) ==
    Abs(delta_difference) >= delta_change_threshold

\* hedge_position, line 297: only hedge if the difference exceeds the threshold
ExceedsThreshold(delta_difference, delta_change_threshold) ==
    Abs(delta_difference) > delta_change_threshold

\* hedge_position, lines 298-310: the order quantity before the limit;
\* delta_difference in tenths of a share
RawOrderQty(hedging_contract, delta_difference) ==
    IF IsOption(hedging_contract)
    THEN LET multiplier     == hedging_contract.multiplier
             contract_delta == IF hedging_contract.right = "C" THEN 500 ELSE -500
         IN  TruncDiv(delta_difference * 100, contract_delta * multiplier)
    ELSE TruncDiv(delta_difference, 10)

\* hedge_position, lines 312-316: apply the max order limit
ApplyMaxOrderLimit(order_qty, max_order_qty) ==
    IF Abs(order_qty) > max_order_qty
    THEN (IF order_qty > 0 THEN max_order_qty ELSE -max_order_qty)
    ELSE order_qty

\* Line 318 without its test: a trade is executed for any quantity
ShouldTradeAlways(order_qty) == TRUE

\* hedge_position, line 318: a trade is executed for this quantity
ShouldTrade(order_qty) == order_qty # 0

\* execute_trade, lines 116-121: the side of the market order
OrderAction(order_qty) == IF order_qty > 0 THEN "BUY" ELSE "SELL"

(***************************************************************************)
(* Threads.  A thread record holds the arguments and locals of one         *)
(* run_auto_hedger call and where it stands:                               *)
(*   start    about to test the while condition for the first time         *)
(*   loop     passed the while condition, about to call hedge_position     *)
(*   pend     in hedge_position, positions fetched, before line 284        *)
(*   place    in execute_trade, before ib.placeOrder (line 136)            *)
(*   wait     in execute_trade, in ib.sleep(1) (line 145)                  *)
(*   sleep    in ib.sleep(5), line 362                                     *)
(*   finally  left the loop, before line 375                               *)
(*   exited   returned                                                     *)
(* delta_difference, original_qty and order_qty are hedge_position's       *)
(* locals, held while it is in execute_trade.  The other fields observe    *)
(* the run and are read by no action:                                      *)
(*   outcome         how the last hedge_position call ended (the message   *)
(*                   it logged last), while the thread sleeps after it     *)
(*   contract_delta  the per-contract delta get_delta used in it           *)
(*   alerts          the statuses the alert sink shows for the alerts the  *)
(*                   thread's last execute_trade call added, oldest first  *)
(*   failed          a broker call raised in this cycle                    *)
(*   streak          consecutive cycles, up to the last one ended, in      *)
(*                   which a broker call raised (counted up to max_errors) *)
(***************************************************************************)
NewThread(position_key, target_delta, delta_change_threshold, max_order_qty) ==
    [key |-> position_key, target_delta |-> target_delta,
     delta_change_threshold |-> delta_change_threshold, max_order_qty |-> max_order_qty,
     pc |-> "start", error_count |-> 0, positions |-> << >>,
     delta_difference |-> 0, original_qty |-> 0, order_qty |-> 0, trade |-> 0,
     outcome |-> "none", contract_delta |-> 0, failed |-> FALSE, streak |-> 0,
     alerts |-> << >>]

ThreadIds == 1..Len(threads)

\* The outcomes of a broker call: TRUE it returns, FALSE it raises
Outcomes == IF faulty THEN BOOLEAN ELSE {TRUE}

\* Threads one run starts
ThreadLimit == IF single THEN 1 ELSE MaxThreads

\* execute_trade, lines 148-169, with every status that is not working taken
\* for a fill
AlertStatusOptimistic(order_status) ==
    IF order_status \in order_statuses THEN "PENDING" ELSE "FILLED"

\* execute_trade, lines 148-169: the alert status set for an order status
AlertStatus(order_status) ==
    IF order_status \in order_statuses THEN "PENDING"
    ELSE IF order_status = "Filled" THEN "FILLED"
    ELSE "FAILED"

\* execute_trade, lines 138-140, 149-151, 157-160, 165-167: alert.status is set
\* and the same alert object is added again; the sink shows the new status in
\* the entry it held already and in the new one
UpdatedAlert(alerts, status) == [i \in 1..(Len(alerts) + 1) |-> status]

\* execute_trade, lines 174-183: the handler adds a new alert with status ERROR
ErrorAlert(alerts) == Append(alerts, "ERROR")

\* The working orders on an instrument, whoever placed them
WorkingOn(instr, trs) ==
    {i \in 1..Len(trs) : trs[i].instr = instr /\ trs[i].status \in order_statuses}

\* run_auto_hedger, lines 357-362: hedge_position has returned; the error count
\* is reset and the thread sleeps
EndCycle(th, raised, outcome) ==
    [th EXCEPT !.pc = "sleep", !.error_count = 0, !.positions = << >>, !.trade = 0,
               !.delta_difference = 0, !.original_qty = 0, !.order_qty = 0,
               !.contract_delta = 0, !.outcome = outcome, !.failed = FALSE,
               !.streak = IF th.failed \/ raised THEN Min(th.streak + 1, max_errors) ELSE 0]

(***************************************************************************)
(* start_auto_hedger and stop_auto_hedger, called by the dashboard with    *)
(* its selected position key and its entry fields                          *)
(***************************************************************************)
IsRunning(position_key) ==
    position_key \in DOMAIN hedger_status /\ hedger_status[position_key]

\* start_auto_hedger without the test of lines 385-387: a start for a running
\* key would spawn a second thread
start_auto_hedger_unguarded(position_key, target_delta, delta_change_threshold, max_order_qty) ==
    /\ IF position_key = ""
       THEN /\ start_result' = "False"
            /\ UNCHANGED <<hedger_status, threads>>
       ELSE /\ Len(threads) < ThreadLimit
            /\ hedger_status' = Assign(hedger_status, position_key, TRUE)
            /\ threads' = Append(threads,
                                 NewThread(position_key, target_delta,
                                           delta_change_threshold, max_order_qty))
            /\ start_result' = "True"
    /\ UNCHANGED <<ui_vars, sink_vars, calc_vars, broker_vars, cache_vars>>

start_auto_hedger(position_key, target_delta, delta_change_threshold, max_order_qty) ==
    /\ IF position_key = ""
       THEN /\ start_result' = "False"
            /\ UNCHANGED <<hedger_status, threads>>
       ELSE IF IsRunning(position_key)
       THEN /\ start_result' = "False"
            /\ UNCHANGED <<hedger_status, threads>>
       ELSE /\ Len(threads) < ThreadLimit
            /\ hedger_status' = Assign(hedger_status, position_key, TRUE)
            /\ threads' = Append(threads,
                                 NewThread(position_key, target_delta,
                                           delta_change_threshold, max_order_qty))
            /\ start_result' = "True"
    /\ UNCHANGED <<ui_vars, sink_vars, calc_vars, broker_vars, cache_vars>>

stop_auto_hedger(position_key) ==
    /\ IF position_key # ""
       THEN IF position_key \in DOMAIN hedger_status
            THEN hedger_status' = [hedger_status EXCEPT ![position_key] = FALSE]
            ELSE UNCHANGED hedger_status
       ELSE hedger_status' = [k \in DOMAIN hedger_status |-> FALSE]
    /\ UNCHANGED <<threads, start_result, ui_vars, sink_vars, calc_vars, broker_vars,
                   cache_vars>>

\* dashboard.py, run_auto_hedger and stop_auto_hedger
DashboardStart ==
    /\ position_var # ""
    /\ start_auto_hedger(position_var, entries.target_delta,
                         entries.delta_change_threshold, entries.max_order_qty)

DashboardStop ==
    /\ position_var # ""
    /\ stop_auto_hedger(position_var)

(***************************************************************************)
(* run_auto_hedger, hedge_position and execute_trade, step by step         *)
(***************************************************************************)
\* The while condition with a key that was started once taken for running
LoopConditionStale(position_key) == position_key \in DOMAIN hedger_status

\* run_auto_hedger, line 354: hedger_status.get(position_key, False)
LoopCondition(position_key) == IsRunning(position_key)

\* hedge_position without the test of lines 262-263
HedgeGuardMissing(position_key) == TRUE

\* hedge_position, line 262: the evaluation goes on only for a running key
HedgeGuard(position_key) == IsRunning(position_key)

\* The end of ib.sleep(5) and the while condition (line 354).  slept: how the
\* ib.sleep(5) the thread was in ended ("ok", "raise": it raised and the
\* handler's sleep returned, "raise2": both raised).
LoopStep(t) ==
    /\ threads[t].pc \in {"start", "sleep"}
    /\ \E slept \in IF threads[t].pc = "sleep" /\ faulty THEN {"ok", "raise", "raise2"}
                    ELSE {"ok"} :
          LET th    == threads[t]
              count == IF slept = "ok" THEN th.error_count ELSE th.error_count + 1
              th1   == [th EXCEPT !.error_count = count, !.outcome = "none",
                                   !.alerts = << >>]
          IN  IF slept = "raise2" \/ (slept = "raise" /\ count >= max_errors)
              THEN threads' = [threads EXCEPT ![t] = [th1 EXCEPT !.pc = "finally"]]
              ELSE IF ~LoopCondition(th.key)
              THEN threads' = [threads EXCEPT ![t] = [th1 EXCEPT !.pc = "finally"]]
              ELSE threads' = [threads EXCEPT ![t] = [th1 EXCEPT !.pc = "loop"]]
    /\ UNCHANGED <<hedger_status, start_result, ui_vars, sink_vars, calc_vars,
                   broker_vars, cache_vars>>

\* hedge_position up to the position fetch (lines 262-281).  fetched: whether
\* ib.positions() returned.
HedgeStep(t) ==
    /\ threads[t].pc = "loop"
    /\ \E fetched \in Outcomes :
          LET th    == threads[t]
              hedging_contract == HedgingContract(th.key)
              found == get_current_positions(th.key, positions, ~fetched)
          IN  IF ~HedgeGuard(th.key)
              THEN /\ fetched
                   /\ threads' = [threads EXCEPT ![t] = EndCycle(th, FALSE, "not_running")]
              ELSE IF hedging_contract.secType = "NONE"
              THEN /\ fetched
                   /\ threads' = [threads EXCEPT ![t] = EndCycle(th, FALSE, "no_contract")]
              ELSE IF found = << >>
              THEN threads' = [threads EXCEPT ![t] =
                                  EndCycle(th, ~fetched, "no_positions")]
              ELSE threads' = [threads EXCEPT ![t] =
                                  [th EXCEPT !.pc = "pend", !.positions = found]]
    /\ UNCHANGED <<hedger_status, start_result, ui_vars, sink_vars, calc_vars,
                   broker_vars, cache_vars>>

\* hedge_position, lines 284-334, and execute_trade up to the PENDING alert
\* (lines 110-134).  answered, answered2: whether the ib.openTrades() of the
\* two pending checks returned.
PendStep(t) ==
    /\ threads[t].pc = "pend"
    /\ \E answered \in Outcomes, answered2 \in Outcomes :
          LET th  == threads[t]
              hedging_contract == HedgingContract(th.key)
              sum == SumDeltas(th.positions, market_data_cache, last_market_data_request,
                               price)
              current_delta    == sum.delta
              delta_difference == th.target_delta - current_delta
              original_qty     == RawOrderQty(hedging_contract, delta_difference)
              order_qty        == ApplyMaxOrderLimit(original_qty, th.max_order_qty)
              check_symbol     == Identifier(hedging_contract)
              th1 == [th EXCEPT !.delta_difference = delta_difference,
                                 !.original_qty = original_qty, !.order_qty = order_qty,
                                 !.contract_delta = sum.contract_delta]
          IN  IF has_pending_orders(KeyChars(th.key), trades, ~answered)
              THEN /\ answered2
                   /\ threads' = [threads EXCEPT ![t] =
                                     EndCycle(th, ~answered, "pending_orders")]
                   /\ UNCHANGED cache_vars
              ELSE /\ market_data_cache' = sum.cache
                   /\ last_market_data_request' = sum.last
                   /\ IF ~ExceedsThreshold(delta_difference, th.delta_change_threshold)
                      THEN /\ answered2
                           /\ threads' = [threads EXCEPT ![t] =
                                             EndCycle(th, ~answered, "within_threshold")]
                      ELSE IF ~ShouldTrade(order_qty)
                      THEN /\ answered2
                           /\ threads' = [threads EXCEPT ![t] =
                                             EndCycle(th, ~answered, "zero_quantity")]
                      ELSE IF has_pending_orders(check_symbol, trades, ~answered2)
                      THEN threads' = [threads EXCEPT ![t] =
                                          EndCycle(th, ~answered \/ ~answered2,
                                                   "trade_skipped")]
                      ELSE threads' = [threads EXCEPT ![t] =
                                          [th1 EXCEPT !.pc = "place", !.outcome = "trading",
                                                      !.failed = ~answered \/ ~answered2,
                                                      !.alerts = <<"PENDING">>]]
    /\ UNCHANGED <<hedger_status, start_result, ui_vars, sink_vars, calc_vars, broker_vars>>

\* execute_trade, lines 136-142: ib.placeOrder returns a trade, returns nothing,
\* or raises.
PlaceStep(t) ==
    /\ threads[t].pc = "place"
    /\ \E outcome \in IF faulty THEN {"trade", "none", "raise"} ELSE {"trade"} :
          LET th == threads[t]
          IN  IF outcome = "trade"
              THEN /\ Len(trades) < MaxOrders
                   /\ trades' = Append(trades,
                                       [key |-> th.key, instr |-> InstrOfKey(th.key),
                                        own |-> TRUE, action |-> OrderAction(th.order_qty),
                                        quantity |-> Abs(th.order_qty),
                                        status |-> "PendingSubmit"])
                   /\ threads' = [threads EXCEPT ![t] =
                                     [th EXCEPT !.pc = "wait", !.trade = Len(trades) + 1]]
              ELSE /\ threads' = [threads EXCEPT ![t] =
                                     IF outcome = "raise"
                                     THEN EndCycle([th EXCEPT !.alerts = ErrorAlert(th.alerts)],
                                                   TRUE, "order_error")
                                     ELSE EndCycle([th EXCEPT !.alerts =
                                                       UpdatedAlert(th.alerts, "FAILED")],
                                                   FALSE, "order_failed")]
                   /\ UNCHANGED trades
    /\ UNCHANGED <<hedger_status, start_result, ui_vars, sink_vars, calc_vars, positions, price,
                   cache_vars>>

\* execute_trade, lines 145-185: ib.sleep(1), then the order's status is read.
WaitStep(t) ==
    /\ threads[t].pc = "wait"
    /\ \E slept \in Outcomes :
          LET th == threads[t]
              order_status == trades[th.trade].status
          IN  threads' = [threads EXCEPT ![t] =
                             IF ~slept
                             THEN EndCycle([th EXCEPT !.alerts = ErrorAlert(th.alerts)],
                                           TRUE, "order_error")
                             ELSE EndCycle([th EXCEPT !.alerts =
                                               UpdatedAlert(th.alerts,
                                                            AlertStatus(order_status))],
                                           FALSE,
                                           IF order_status \in order_statuses
                                           THEN "order_pending"
                                           ELSE IF order_status = "Filled" THEN "order_filled"
                                           ELSE "order_failed")]
    /\ UNCHANGED <<hedger_status, start_result, ui_vars, sink_vars, calc_vars,
                   broker_vars, cache_vars>>

\* run_auto_hedger, lines 374-376: finally
FinallyStep(t) ==
    /\ threads[t].pc = "finally"
    /\ hedger_status' = [hedger_status EXCEPT ![threads[t].key] = FALSE]
    /\ threads' = [threads EXCEPT ![t].pc = "exited"]
    /\ UNCHANGED <<start_result, ui_vars, sink_vars, calc_vars, broker_vars, cache_vars>>

(***************************************************************************)
(* The environment: the broker and the clock                               *)
(***************************************************************************)
\* The position of an instrument after a fill of qty
UpdatePosition(poss, instr, qty) ==
    IF \E i \in 1..Len(poss) : poss[i].instr = instr
    THEN LET i == CHOOSE j \in 1..Len(poss) :
                     poss[j].instr = instr /\ \A l \in 1..(j - 1) : poss[l].instr # instr
         IN  [poss EXCEPT ![i].qty = poss[i].qty + qty]
    ELSE Append(poss, [instr |-> instr, qty |-> qty])

\* The broker moves a working order forward; a fill changes the position.
OrderStatusChange(i, st) ==
    /\ trades[i].status \in order_statuses
    /\ StatusRank(st) > StatusRank(trades[i].status)
    /\ trades' = [trades EXCEPT ![i].status = st]
    /\ positions' = IF st = "Filled"
                    THEN UpdatePosition(positions, trades[i].instr,
                                        IF trades[i].action = "BUY" THEN trades[i].quantity
                                        ELSE -trades[i].quantity)
                    ELSE positions
    /\ UNCHANGED <<hedger_status, threads, start_result, ui_vars, sink_vars, calc_vars,
                   price, cache_vars>>

\* MARKET_DATA_CACHE_TIME seconds pass: what was cached or requested is stale
CacheTimeElapses ==
    /\ market_data_cache # << >> \/ last_market_data_request # {}
    /\ market_data_cache' = << >>
    /\ last_market_data_request' = {}
    /\ UNCHANGED <<hedger_status, threads, start_result, ui_vars, sink_vars, calc_vars,
                   broker_vars>>

(***************************************************************************)
(* Initial states: the dashboard's fields and the account                  *)
(***************************************************************************)
\* The account of the runs: 10 shares of the stock and 2 call contracts
Account == <<[instr |-> "STK", qty |-> 10], [instr |-> "CALL", qty |-> 2]>>

\* An account that holds the call contracts only
OptionAccount == <<[instr |-> "CALL", qty |-> 2]>>

\* An account that is short the stock
ShortAccount == <<[instr |-> "STK", qty |-> -3]>>

\* An account that holds the put contracts only
PutAccount == <<[instr |-> "PUT", qty |-> 2]>>

\* Two accounts of the session that hold the same stock and the same call
TwoAccounts ==
    <<[instr |-> "STK", qty |-> 10], [instr |-> "CALL", qty |-> 2],
      [instr |-> "STK", qty |-> 4], [instr |-> "CALL", qty |-> 1]>>

\* An order entered outside the hedger and still working
OutsideOrder(instr, status) ==
    <<[key |-> "", instr |-> instr, own |-> FALSE, action |-> "BUY", quantity |-> 1,
       status |-> status]>>

\* Entry fields: target and threshold in tenths of a share
Entries(target_delta, delta_change_threshold, max_order_qty) ==
    [target_delta |-> target_delta, delta_change_threshold |-> delta_change_threshold,
     max_order_qty |-> max_order_qty]

Scenario(key, e, poss, trs, stock_price, flt, one) ==
    [position_var |-> key, entries |-> e, positions |-> poss, trades |-> trs,
     price |-> stock_price, faulty |-> flt, single |-> one]

\* Runs with concurrent threads and a broker that answers
ConcurrentScenarios ==
    { Scenario(StockKey, Entries(207, 50, 100), Account, << >>, 110000, FALSE, FALSE) }

\* Runs with one thread and a broker whose calls may raise
FaultyScenarios ==
    { Scenario(StockKey, Entries(207, 50, 100), Account, << >>, 0, TRUE, TRUE),
      Scenario(StockKey, Entries(207, 50, 100), Account,
               OutsideOrder("STK", "Submitted"), 0, TRUE, TRUE),
      Scenario(CallKey, Entries(207, 50, 100), Account, << >>, 110000, TRUE, TRUE) }

\* Runs with one thread and a broker that answers
SingleScenarios ==
    { Scenario(StockKey, Entries(150, 50, 3), Account, << >>, 0, FALSE, TRUE),
      Scenario(StockKey, Entries(300, 50, -5), Account, << >>, 0, FALSE, TRUE),
      Scenario(StockKey, Entries(300, 50, 0), Account, << >>, 0, FALSE, TRUE),
      Scenario(StockKey, Entries(300, 50, 4), Account, << >>, 0, FALSE, TRUE),
      Scenario(StockKey, Entries(107, 5, 4), Account, << >>, 0, FALSE, TRUE),
      Scenario(StockKey, Entries(207, 50, 100), OptionAccount, << >>, 0, FALSE, TRUE),
      Scenario(StockKey, Entries(20, 5, 100), ShortAccount, << >>, 0, FALSE, TRUE),
      Scenario(StockKey, Entries(207, 50, 100), Account,
               OutsideOrder("CALL", "PreSubmitted"), 0, FALSE, TRUE),
      Scenario(TickerKey, Entries(207, 50, 100), Account, << >>, 0, FALSE, TRUE),
      Scenario(CallKey, Entries(207, 50, 100), Account, << >>, 0, FALSE, TRUE),
      Scenario(PutKey, Entries(-1000, 50, 100), PutAccount, << >>, 0, FALSE, TRUE),
      Scenario(StockKey, Entries(207, 50, 100), TwoAccounts, << >>, 0, FALSE, TRUE),
      Scenario(CallKey, Entries(207, 50, 100), TwoAccounts, << >>, 110000, FALSE, TRUE),
      Scenario(CallKey, Entries(300, 50, -5), Account, << >>, 100000, FALSE, TRUE),
      Scenario(CallKey, Entries(207, 50, 100), Account,
               OutsideOrder("CALL", "PendingSubmit"), 0, FALSE, TRUE) }

Scenarios == ConcurrentScenarios \cup FaultyScenarios \cup SingleScenarios

HedgerInit ==
    /\ hedger_status = << >>
    /\ threads = << >>
    /\ start_result = "none"
    /\ \E sc \in Scenarios :
          /\ position_var = sc.position_var
          /\ entries = sc.entries
          /\ positions = sc.positions
          /\ trades = sc.trades
          /\ price = sc.price
          /\ faulty = sc.faulty
          /\ single = sc.single
    /\ market_data_cache = << >>
    /\ last_market_data_request = {}

\* The loops that call the alert sink
Callers == 1..MaxThreads

\* A loop outside add_alert: pc is where it stands in add_alert, alert the
\* alert of its last add_alert call (0: none), calls the calls it made, result
\* how its last add_alert call ended
IdleCaller == [pc |-> "idle", alert |-> 0, calls |-> 0, result |-> "none"]

\* The sink before any alert or message
SinkEmpty ==
    /\ alert_queue = << >>
    /\ recent_alerts = << >>
    /\ hedge_log = << >>
    /\ callers = [c \in Callers |-> IdleCaller]
    /\ created = 0
    /\ logged = 0

\* The calculators before any call
ParserIdle ==
    parser = [symbol |-> << >>, wellformed |-> FALSE, fields |-> << >>,
              hedger |-> "idle", hedger_data |-> NoContract,
              iv |-> "idle", iv_data |-> NoOptionData]

IvIdle == iv_calc = [pc |-> "idle"]

RvIdle == rv_calc = [pc |-> "idle"]

ConnIdle == conn = [pc |-> "idle"]

DeltaIdle == delta_calc = [pc |-> "idle"]

CacheIdle == cache_run = [pc |-> "idle"]

\* No call of ib_connection.py is followed on its own
CallsIdle == ConnIdle /\ DeltaIdle /\ CacheIdle

CalcIdle == ParserIdle /\ IvIdle /\ RvIdle /\ CallsIdle

Init == HedgerInit /\ SinkEmpty /\ CalcIdle

Next ==
    \/ DashboardStart
    \/ DashboardStop
    \/ \E t \in ThreadIds : LoopStep(t)
    \/ \E t \in ThreadIds : HedgeStep(t)
    \/ \E t \in ThreadIds : PendStep(t)
    \/ \E t \in ThreadIds : PlaceStep(t)
    \/ \E t \in ThreadIds : WaitStep(t)
    \/ \E t \in ThreadIds : FinallyStep(t)
    \/ \E i \in 1..Len(trades), st \in OrderStatuses : OrderStatusChange(i, st)
    \/ CacheTimeElapses

Spec == Init /\ [][Next]_vars

\* The steps of the loop thread t.  Every broker call of the loop returns or
\* raises and the thread is scheduled again: a thread that can take a step
\* eventually takes one.
ThreadStep(t) ==
    /\ t \in ThreadIds
    /\ LoopStep(t) \/ HedgeStep(t) \/ PendStep(t) \/ PlaceStep(t) \/ WaitStep(t)
         \/ FinallyStep(t)

\* The runs in which a stop is followed to the end of the loop: those with a
\* broker that answers and quotes a price for the stock, on the account of
\* one holder
FairInit == Init /\ ~faulty /\ price # 0 /\ positions = Account

FairSpec == FairInit /\ [][Next]_vars /\ \A t \in 1..MaxThreads : WF_vars(ThreadStep(t))

(***************************************************************************)
(* The alert sink: add_alert and log_message, called by the hedge loops,   *)
(* one statement at a time.  In Spec the sink is followed through the      *)
(* field alerts of the threads; SinkSpec follows the buffers themselves,   *)
(* from a sink that already holds the alerts and messages of earlier       *)
(* cycles.                                                                 *)
(***************************************************************************)
hedger_vars == <<hedger_status, threads, start_result, ui_vars, broker_vars, cache_vars>>

\* deque.append without the maxlen: nothing is ever evicted
DequeAppendUnbounded(d, x, maxlen) == Append(d, x)

\* deque(maxlen=...).append(x): at capacity the oldest entry is discarded
DequeAppend(d, x, maxlen) ==
    IF Len(d) >= maxlen THEN Append(Tail(d), x) ELSE Append(d, x)

\* The numbers first..last in order
Range(first, last) == [i \in 1..(last - first + 1) |-> first + i - 1]

\* The buffer of capacity cap after items 1..n were appended one after another
Newest(n, cap) == Range(Max(1, n - cap + 1), n)

\* The calls the loops 1..n have made
RECURSIVE TotalCalls(_)
TotalCalls(n) == IF n = 0 THEN 0 ELSE callers[n].calls + TotalCalls(n - 1)

\* add_alert, line 54, for a new alert: alert_queue.put(alert, block=False)
\* puts the alert or raises queue.Full
AddAlertPut(c) ==
    /\ callers[c].pc = "idle"
    /\ TotalCalls(MaxThreads) < MaxCalls
    /\ created' = created + 1
    /\ IF Len(alert_queue) < alert_queue_maxsize
       THEN /\ alert_queue' = Append(alert_queue, created + 1)
            /\ callers' = [callers EXCEPT ![c] =
                              [pc |-> "append", alert |-> created + 1,
                               calls |-> callers[c].calls + 1, result |-> "none"]]
       ELSE /\ callers' = [callers EXCEPT ![c] =
                              [pc |-> "full", alert |-> created + 1,
                               calls |-> callers[c].calls + 1, result |-> "none"]]
            /\ UNCHANGED alert_queue
    /\ UNCHANGED <<recent_alerts, hedge_log, logged, hedger_vars, calc_vars>>

\* add_alert, lines 55 and 61: recent_alerts.append(alert)
AddAlertAppend(c) ==
    /\ callers[c].pc = "append"
    /\ recent_alerts' = DequeAppend(recent_alerts, callers[c].alert, recent_alerts_maxlen)
    /\ callers' = [callers EXCEPT ![c].pc = "idle", ![c].result = "added"]
    /\ UNCHANGED <<alert_queue, hedge_log, created, logged, hedger_vars, calc_vars>>

\* add_alert, line 57, and log_message, line 48: the handler of queue.Full logs
AddAlertFull(c) ==
    /\ callers[c].pc = "full"
    /\ hedge_log' = DequeAppend(hedge_log, logged + 1, hedge_log_maxlen)
    /\ logged' = logged + 1
    /\ callers' = [callers EXCEPT ![c].pc = "get"]
    /\ UNCHANGED <<alert_queue, recent_alerts, created, hedger_vars, calc_vars>>

\* add_alert, line 59: alert_queue.get_nowait() removes the oldest alert;
\* queue.Empty is caught and add_alert returns (lines 62-63)
AddAlertGet(c) ==
    /\ callers[c].pc = "get"
    /\ IF alert_queue = << >>
       THEN /\ callers' = [callers EXCEPT ![c].pc = "idle", ![c].result = "dropped"]
            /\ UNCHANGED alert_queue
       ELSE /\ alert_queue' = Tail(alert_queue)
            /\ callers' = [callers EXCEPT ![c].pc = "put"]
    /\ UNCHANGED <<recent_alerts, hedge_log, created, logged, hedger_vars, calc_vars>>

\* add_alert, line 60: alert_queue.put(alert, block=False) in the handler; a
\* queue.Full raised here is caught by nothing in add_alert
AddAlertPutAgain(c) ==
    /\ callers[c].pc = "put"
    /\ IF Len(alert_queue) < alert_queue_maxsize
       THEN /\ alert_queue' = Append(alert_queue, callers[c].alert)
            /\ callers' = [callers EXCEPT ![c].pc = "append"]
       ELSE /\ callers' = [callers EXCEPT ![c].pc = "idle", ![c].result = "raised"]
            /\ UNCHANGED alert_queue
    /\ UNCHANGED <<recent_alerts, hedge_log, created, logged, hedger_vars, calc_vars>>

\* log_message(message), line 48
log_message(c) ==
    /\ callers[c].pc = "idle"
    /\ TotalCalls(MaxThreads) < MaxCalls
    /\ hedge_log' = DequeAppend(hedge_log, logged + 1, hedge_log_maxlen)
    /\ logged' = logged + 1
    /\ callers' = [callers EXCEPT ![c].calls = callers[c].calls + 1]
    /\ UNCHANGED <<alert_queue, recent_alerts, created, hedger_vars, calc_vars>>

\* The alerts and messages of earlier cycles the sink starts with: none, or
\* as many as bring a buffer to its capacity or one short of it
StartFills ==
    {0, recent_alerts_maxlen - 1, alert_queue_maxsize - 1, alert_queue_maxsize}

\* The sink after n alerts and n messages were added one after another by one
\* loop: no call met a full queue
SinkAfter(n) ==
    /\ alert_queue = Newest(n, alert_queue_maxsize)
    /\ recent_alerts = Newest(n, recent_alerts_maxlen)
    /\ hedge_log = Newest(n, hedge_log_maxlen)
    /\ callers = [c \in Callers |-> IdleCaller]
    /\ created = n
    /\ logged = n

SinkInit ==
    /\ HedgerInit
    /\ CalcIdle
    /\ ~single
    /\ \E n \in StartFills : SinkAfter(n)

SinkNext ==
    \/ \E c \in Callers : AddAlertPut(c)
    \/ \E c \in Callers : AddAlertAppend(c)
    \/ \E c \in Callers : AddAlertFull(c)
    \/ \E c \in Callers : AddAlertGet(c)
    \/ \E c \in Callers : AddAlertPutAgain(c)
    \/ \E c \in Callers : log_message(c)

SinkSpec == SinkInit /\ [][SinkNext]_vars

(***************************************************************************)
(* The option symbol parsers.  The hedger's parse_option_symbol            *)
(* (auto_hedger.py) is defined with the keys above; here is the one of the *)
(* IV calculator (iv_calculator.py), and the runs in which both parse a    *)
(* symbol.                                                                 *)
(***************************************************************************)
Letters == {"A", "B", "C", "P", "Q", "S", "X", "Y"}

\* str.isalpha() over the characters of the model
IsAlpha(s) == s # << >> /\ \A i \in 1..Len(s) : s[i] \in Letters

\* parse_option_symbol (iv_calculator): the dict it returns, or NoOptionData
\* for None; the strike in thousandths
iv_parse_option_symbol(symbol) ==
    LET parts == Split(symbol)
    IN  IF Len(parts) = 1 /\ IsAlpha(parts[1]) THEN NoOptionData
        ELSE IF Len(parts) # 2 THEN NoOptionData
        ELSE LET details == parts[2]
             IN  IF Len(details) < 15 \/ details[7] \notin {"P", "C"} THEN NoOptionData
                 ELSE IF ParseFloat(SliceFrom(details, 7)) = -1 THEN NoOptionData
                 ELSE [underlying |-> parts[1],
                       expiry |-> <<"2", "0">> \o SliceTo(details, 6),
                       right |-> details[7],
                       strike |-> ParseFloat(SliceFrom(details, 7))]

DigitChar(d) == CHOOSE c \in Digits : DigitVal(c) = d

Pow10(n) == CASE n = 0 -> 1 [] n = 1 -> 10 [] n = 2 -> 100 [] n = 3 -> 1000
              [] n = 4 -> 10000 [] n = 5 -> 100000 [] n = 6 -> 1000000 [] n = 7 -> 10000000

\* strike * 1000 written as 8 digits
FormatStrike(thousandths) ==
    [i \in 1..8 |-> DigitChar((thousandths \div Pow10(8 - i)) % 10)]

Blanks(n) == [i \in 1..n |-> " "]

\* The option symbol format of parse_option_symbol's comment,
\* "QQQ   241101P00498000": underlying, blanks, YYMMDD, right, strike * 1000
OptionKey(underlying, blanks, date, right, strike) ==
    underlying \o Blanks(blanks) \o date \o <<right>> \o FormatStrike(strike)

\* " ".join(symbol.split())
RECURSIVE JoinBlank(_)
JoinBlank(parts) ==
    IF parts = << >> THEN << >>
    ELSE IF Len(parts) = 1 THEN parts[1]
    ELSE parts[1] \o <<" ">> \o JoinBlank(Tail(parts))

\* The values the symbols of the runs are made of
Underlyings == {<<"Q", "Q", "Q">>, <<"S", "P", "Y">>}

Expiries == {<<"2", "4", "1", "1", "0", "1">>, <<"2", "5", "0", "6", "2", "0">>}

Strikes == {500, 100000, 498000, 12345678}

OptionFields(underlying, date, right, strike) ==
    [underlying |-> underlying, date |-> date, right |-> right, strike |-> strike]

NoFields == OptionFields(<< >>, << >>, "", 0)

\* The well-formed symbols, each with the fields it was written from
WellFormedInputs ==
    { [symbol |-> OptionKey(u, n, d, r, k), wellformed |-> TRUE,
       fields |-> OptionFields(u, d, r, k)] :
         u \in Underlyings, n \in 1..MaxBlanks, d \in Expiries, r \in {"C", "P"},
         k \in Strikes }

\* The second parts of malformed symbols: a right that is not C or P, a date
\* or a strike field too short, a strike field missing, a date or a strike
\* that is not a number
MalformedDetails ==
    LET d == <<"2", "4", "1", "1", "0", "1">>
        k == FormatStrike(498000)
    IN  UNION { { d \o <<"X">> \o k,
                  d \o <<"1">> \o k,
                  SubSeq(d, 1, 4) \o <<r>> \o k,
                  d \o <<r>> \o SubSeq(k, 1, 7),
                  d \o <<r>>,
                  <<"2", "4", "A", "B", "0", "1">> \o <<r>> \o k,
                  d \o <<r>> \o <<"0", "0", "A", "9", "8", "0", "0", "0">> } :
                r \in {"C", "P"} }

\* The malformed symbols: those without a second part and those with a
\* malformed one
MalformedInputs ==
    { [symbol |-> sym, wellformed |-> FALSE, fields |-> NoFields] :
        sym \in Underlyings
                 \cup { u \o Blanks(n) : u \in Underlyings, n \in 1..MaxBlanks }
                 \cup { u \o Blanks(n) \o m :
                          u \in Underlyings, n \in 1..MaxBlanks, m \in MalformedDetails } }

ParserInit ==
    /\ HedgerInit
    /\ ~single
    /\ SinkEmpty
    /\ IvIdle
    /\ RvIdle
    /\ CallsIdle
    /\ \E in \in WellFormedInputs \cup MalformedInputs :
          parser = [symbol |-> in.symbol, wellformed |-> in.wellformed,
                    fields |-> in.fields,
                    hedger |-> "idle", hedger_data |-> NoContract,
                    iv |-> "idle", iv_data |-> NoOptionData]

\* auto_hedger.parse_option_symbol(symbol) is called
HedgerParses ==
    /\ parser.hedger = "idle"
    /\ parser' = [parser EXCEPT !.hedger = "done",
                                !.hedger_data = parse_option_symbol(parser.symbol)]
    /\ UNCHANGED <<hedger_vars, sink_vars, iv_calc, rv_calc, call_vars>>

\* iv_calculator.parse_option_symbol(symbol) is called
IvParses ==
    /\ parser.iv = "idle"
    /\ parser' = [parser EXCEPT !.iv = "done",
                                !.iv_data = iv_parse_option_symbol(parser.symbol)]
    /\ UNCHANGED <<hedger_vars, sink_vars, iv_calc, rv_calc, call_vars>>

ParserNext == HedgerParses \/ IvParses

ParserSpec == ParserInit /\ [][ParserNext]_vars

(***************************************************************************)
(* calculate_iv (iv_calculator.py): the bisection for the implied          *)
(* volatility.  A volatility is an integer number of units of 1e-8.  The   *)
(* Black-Scholes price is strictly increasing in sigma; a call is given by *)
(* the volatility at which the model price equals the market price (root)  *)
(* and by the slope of the price around it (vega, in thousandths of a      *)
(* price unit per unit of volatility), so that                             *)
(*     black_scholes(sigma) - option_price = vega * (sigma - root)         *)
(* in price units of 1e-11.  The midpoint of the float bisection is taken  *)
(* on the grid of 1e-8.                                                    *)
(***************************************************************************)
\* None, where calculate_iv returns a volatility
NoSigma == -1

\* An option price that is not a number: it passes the validation of lines
\* 75-78 and every comparison with it is false
NotANumber == -2

IsNaN(root) == root = NotANumber

\* diff = price - option_price at sigma, line 104: whether diff > 0
PriceAbove(sigma, root) == ~IsNaN(root) /\ sigma > root

\* abs(diff) < tolerance with a tolerance of 0.001
WithinToleranceLoose(sigma, root, vega) ==
    ~IsNaN(root) /\ Abs(sigma - root) <= (1000 * tolerance - 1) \div vega

\* abs(diff) < tolerance, line 106: vega * |sigma - root| < tolerance
WithinTolerance(sigma, root, vega) ==
    ~IsNaN(root) /\ Abs(sigma - root) <= (tolerance - 1) \div vega

\* The update of lines 110-113 with the two bounds exchanged
BisectUpdateSwapped(low, high, sigma, root) ==
    IF PriceAbove(sigma, root) THEN [sigma_low |-> sigma, sigma_high |-> high]
    ELSE [sigma_low |-> low, sigma_high |-> sigma]

\* calculate_iv, lines 110-113: the bracket after a midpoint out of tolerance
BisectUpdate(low, high, sigma, root) ==
    IF PriceAbove(sigma, root) THEN [sigma_low |-> low, sigma_high |-> sigma]
    ELSE [sigma_low |-> sigma, sigma_high |-> high]

\* (sigma_low + sigma_high) / 2
Midpoint(low, high) == (low + high) \div 2

\* The calls of the runs: the volatility that prices the option at the market
\* price (below, at and above the bounds of the search, and between them) ...
Roots ==
    {5000, sigma_low_bound, 10001, 123456, 18930457, 21000000, 30000000, 123456789,
     250005000, 499999999, sigma_high_bound, 600000000, NotANumber}

\* ... and the slope of the price: 0.01 and 0.1 (far from the money), 20 (the
\* option at the money with S = 100, T = 0.25), 2000 (S = 5000, T = 1)
Vegas == {10, 100, 20000, 2000000}

IvInit ==
    /\ HedgerInit
    /\ ~single
    /\ SinkEmpty
    /\ ParserIdle
    /\ RvIdle
    /\ CallsIdle
    /\ \E root \in Roots, vega \in Vegas, valid \in BOOLEAN :
          iv_calc = [pc |-> "called", valid |-> valid, root |-> root, vega |-> vega,
                     sigma_low |-> 0, sigma_high |-> 0, iterations |-> 0,
                     result |-> NoSigma, how |-> "none"]

\* A calculate_iv call that has returned result
IvReturn(c, result, how) == [c EXCEPT !.pc = "done", !.result = result, !.how = how]

\* calculate_iv, lines 75-95: the validation of the inputs and the boundary
\* conditions
IvStart ==
    /\ iv_calc.pc = "called"
    /\ iv_calc' =
          IF ~iv_calc.valid THEN IvReturn(iv_calc, NoSigma, "invalid")
          ELSE IF ~IsNaN(iv_calc.root) /\ iv_calc.root <= sigma_low_bound
          THEN IvReturn(iv_calc, sigma_low_bound, "clamp_low")
          ELSE IF ~IsNaN(iv_calc.root) /\ iv_calc.root >= sigma_high_bound
          THEN IvReturn(iv_calc, sigma_high_bound, "clamp_high")
          ELSE [iv_calc EXCEPT !.pc = "loop", !.sigma_low = sigma_low_bound,
                               !.sigma_high = sigma_high_bound]
    /\ UNCHANGED <<hedger_vars, sink_vars, parser, rv_calc, call_vars>>

\* A loop that neither breaks nor runs out of iterations
LoopNeverEnds(low, high, iterations) == FALSE

\* calculate_iv, lines 97 and 115-116: the loop ends after an iteration that did
\* not converge, by the break on the interval or with the last iteration of
\* range(max_iterations)
LoopEnds(low, high, iterations) ==
    Abs(high - low) < min_interval \/ iterations >= max_iterations

\* calculate_iv, lines 97-118: one iteration of the bisection, and the return
\* of line 118 when the loop ends
IvIterate ==
    /\ iv_calc.pc = "loop"
    /\ LET c     == iv_calc
           sigma == Midpoint(c.sigma_low, c.sigma_high)
           upd   == BisectUpdate(c.sigma_low, c.sigma_high, sigma, c.root)
       IN  iv_calc' =
              IF WithinTolerance(sigma, c.root, c.vega)
              THEN IF 0 <= sigma /\ sigma <= sigma_high_bound
                   THEN IvReturn([c EXCEPT !.iterations = c.iterations + 1],
                                 sigma, "converged")
                   ELSE IvReturn(c, NoSigma, "out_of_range")
              ELSE IF LoopEnds(upd.sigma_low, upd.sigma_high, c.iterations + 1)
              THEN IvReturn([c EXCEPT !.sigma_low = upd.sigma_low,
                                      !.sigma_high = upd.sigma_high,
                                      !.iterations = c.iterations + 1],
                            Midpoint(upd.sigma_low, upd.sigma_high), "fallthrough")
              ELSE [c EXCEPT !.sigma_low = upd.sigma_low, !.sigma_high = upd.sigma_high,
                             !.iterations = c.iterations + 1]
    /\ UNCHANGED <<hedger_vars, sink_vars, parser, rv_calc, call_vars>>

IvNext == IvStart \/ IvIterate

IvSpec == IvInit /\ [][IvNext]_vars

(***************************************************************************)
(* The realized volatility (rv_calculator.py).  A close price is a small   *)
(* integer; a log return is kept in hundredths, from the natural           *)
(* logarithms of the prices in hundredths.  Means and standard deviations  *)
(* are compared exactly, as rationals.                                     *)
(***************************************************************************)
\* A log return that is not finite (a price of zero or less)
NonFinite == 1000000

\* 100 * ln(price), rounded
LnCenti(close) == CASE close = 1 -> 0 [] close = 2 -> 69 [] close = 3 -> 110

\* np.log(prices[1:] / prices[:-1]), one entry
LogReturn(prev, next) ==
    IF prev <= 0 \/ next <= 0 THEN NonFinite ELSE LnCenti(next) - LnCenti(prev)

RECURSIVE SeqSum(_)
SeqSum(xs) == IF xs = << >> THEN 0 ELSE Head(xs) + SeqSum(Tail(xs))

RECURSIVE SeqSumSq(_)
SeqSumSq(xs) == IF xs = << >> THEN 0 ELSE Head(xs) * Head(xs) + SeqSumSq(Tail(xs))

\* len(xs)^2 times the variance of xs (np.std(xs) squared)
VarTimesN2(xs) == Len(xs) * SeqSumSq(xs) - SeqSum(xs) * SeqSum(xs)

\* np.abs(x - mean) <= 4 * std with a factor of 1
WithinOneStd(x, xs) ==
    (Len(xs) * x - SeqSum(xs)) * (Len(xs) * x - SeqSum(xs)) <= VarTimesN2(xs)

\* calculate_returns, line 148: np.abs(x - mean) <= 4 * std over valid_returns
WithinFourStd(x, xs) ==
    (Len(xs) * x - SeqSum(xs)) * (Len(xs) * x - SeqSum(xs)) <= 16 * VarTimesN2(xs)

\* None, where calculate_returns returns an array
NoReturns == [ok |-> FALSE, valid |-> << >>, clean |-> << >>]

\* calculate_returns(prices): the array it returns (clean) with the valid
\* returns it was taken from, or NoReturns for None
calculate_returns(prices) ==
    IF Len(prices) < 2 THEN NoReturns
    ELSE LET returns == [i \in 1..(Len(prices) - 1) |->
                            LogReturn(prices[i], prices[i + 1])]
             valid_returns == SelectSeq(returns, LAMBDA x : x # NonFinite)
             clean_returns == SelectSeq(valid_returns,
                                        LAMBDA x : WithinFourStd(x, valid_returns))
         IN  IF 5 * Len(valid_returns) < 4 * Len(returns) THEN NoReturns
             ELSE IF 5 * Len(clean_returns) < 4 * Len(valid_returns)
             THEN [ok |-> FALSE, valid |-> valid_returns, clean |-> clean_returns]
             ELSE [ok |-> TRUE, valid |-> valid_returns, clean |-> clean_returns]

\* get_bar_size(minutes), as the number of minutes of a bar
get_bar_size(minutes) ==
    IF minutes <= 15 THEN 1 ELSE IF minutes <= 30 THEN 5
    ELSE IF minutes <= 60 THEN 10 ELSE 15

\* get_historical_prices, line 115
expected_bars(time_period_minutes) ==
    time_period_minutes \div get_bar_size(time_period_minutes)

\* prices[-n:]
LastN(xs, n) == IF Len(xs) <= n THEN xs ELSE SubSeq(xs, Len(xs) - n + 1, Len(xs))

\* None, where a volatility is returned
NoVolatility == [kind |-> "none", num |-> 0, den |-> 1]

\* annualize_volatility(vol, time_period_minutes) for the period volatility
\* sqrt(num / den) in hundredths: None, the cap 5.0, or the volatility times
\* sqrt(252 * 6.5 * 60 / time_period_minutes), kept by the period variance.
\* annual_vol > 5.0 is num * 98280 > 250000 * den * time_period_minutes.
annualize_volatility(num, den, time_period_minutes) ==
    IF num < 0 THEN NoVolatility
    ELSE IF num > (6250 * den * time_period_minutes) \div 2457
    THEN [kind |-> "capped", num |-> num, den |-> den]
    ELSE [kind |-> "value", num |-> num, den |-> den]

\* calculate_realized_volatility, lines 203-214: np.std(returns, ddof=1), its
\* validation and the annualization
period_volatility(returns, time_period_minutes) ==
    LET n   == Len(returns)
        num == VarTimesN2(returns)
    IN  IF n < 2 THEN NoVolatility                  \* std is nan
        ELSE IF num <= 0 THEN NoVolatility          \* period_vol <= 0
        ELSE annualize_volatility(num, n * (n - 1), time_period_minutes)

\* The bar series of the runs: n closes p, and n closes p with the closes
\* after the first k, or the close number k alone, at q
FlatBars(n, p) == [i \in 1..n |-> p]

StepBars(n, k, p, q) == [i \in 1..n |-> IF i <= k THEN p ELSE q]

PulseBars(n, k, p, q) == [i \in 1..n |-> IF i = k THEN q ELSE p]

BarCounts == {0, 1, 3, 5, 6, 12, 15, 19, MaxBars}

Closes == {0, 2, 3}

BarSeries ==
    { FlatBars(n, p) : n \in BarCounts, p \in Closes }
      \cup UNION { { StepBars(n, k, p, q), PulseBars(n, k, p, q) } :
                      n \in BarCounts \ {0, 1}, k \in {1, 2, 4, 10, 18},
                      p \in Closes, q \in Closes }

\* The periods of the runs, in minutes
TimePeriods == {15, 30, 300}

RvInit ==
    /\ HedgerInit
    /\ ~single
    /\ SinkEmpty
    /\ ParserIdle
    /\ IvIdle
    /\ CallsIdle
    /\ \E bars \in BarSeries, minutes \in TimePeriods :
          rv_calc = [pc |-> "called", time_period_minutes |-> minutes, bars |-> bars,
                     prices |-> << >>, returns |-> NoReturns, result |-> NoVolatility]

\* get_historical_prices, lines 107-123: the closes above zero, the test of
\* their number and the most recent ones
RvPrices ==
    /\ rv_calc.pc = "called"
    /\ LET c       == rv_calc
           n       == expected_bars(c.time_period_minutes)
           prices  == SelectSeq(c.bars, LAMBDA close : close > 0)
       IN  rv_calc' =
              IF c.bars = << >> THEN [c EXCEPT !.pc = "done"]
              ELSE IF 5 * Len(prices) < 4 * n THEN [c EXCEPT !.pc = "done"]
              ELSE [c EXCEPT !.pc = "prices", !.prices = LastN(prices, n)]
    /\ UNCHANGED <<hedger_vars, sink_vars, parser, iv_calc, call_vars>>

\* calculate_realized_volatility, lines 198-201
RvReturns ==
    /\ rv_calc.pc = "prices"
    /\ LET returns == calculate_returns(rv_calc.prices)
       IN  rv_calc' = [rv_calc EXCEPT !.pc = IF returns.ok THEN "returns" ELSE "done",
                                      !.returns = returns]
    /\ UNCHANGED <<hedger_vars, sink_vars, parser, iv_calc, call_vars>>

\* calculate_realized_volatility, lines 203-214
RvVolatility ==
    /\ rv_calc.pc = "returns"
    /\ rv_calc' = [rv_calc EXCEPT
                      !.pc = "done",
                      !.result = period_volatility(rv_calc.returns.clean,
                                                   rv_calc.time_period_minutes)]
    /\ UNCHANGED <<hedger_vars, sink_vars, parser, iv_calc, call_vars>>

RvNext == RvPrices \/ RvReturns \/ RvVolatility

RvSpec == RvInit /\ [][RvNext]_vars

(***************************************************************************)
(* connect_ib (ib_connection.py, lines 22-50), one await at a time.  The   *)
(* session answers each connectAsync by raising, by connecting, or by      *)
(* completing without a connection (as a mocked session does); a session   *)
(* that connected may drop while connect_ib sleeps.  ib.reqMarketDataType  *)
(* only sends a message on the connected session and does not raise.       *)
(***************************************************************************)
\* config.ib.retry_count
retry_count == 3

\* `for attempt in range(config.ib.retry_count)` with one more round
MoreAttemptsInclusive(attempt) == attempt <= retry_count

\* `for attempt in range(config.ib.retry_count)`: the loop has a round for attempt
MoreAttempts(attempt) == attempt < retry_count

\* `if not ib.isConnected()` that always takes the session for disconnected
AlreadyConnectedIgnored(c) == FALSE

\* `if not ib.isConnected()`, line 31: the else branch of line 40 is taken
AlreadyConnected(c) == c.connected

\* What the session makes of one connectAsync call
ConnectOutcomes == {"raised", "connected", "completed"}

ConnInit ==
    /\ HedgerInit
    /\ ~single
    /\ SinkEmpty
    /\ ParserIdle
    /\ IvIdle
    /\ RvIdle
    /\ DeltaIdle
    /\ CacheIdle
    /\ \E connected \in BOOLEAN :
          conn = [pc |-> "loop", connected |-> connected, initially |-> connected,
                  attempt |-> 0, attempts |-> 0, history |-> << >>, result |-> "none"]

\* connect_ib returns
ConnReturn(c, result) == [c EXCEPT !.pc = "done", !.result = result]

\* The round for c.attempt ends without a return
NextAttempt(c) == [c EXCEPT !.pc = "loop", !.attempt = c.attempt + 1]

\* Lines 29-32 and 40-42, 49-50: the head of the loop, the test of the session
\* and the call of ib.connectAsync
ConnLoop ==
    /\ conn.pc = "loop"
    /\ conn' = IF ~MoreAttempts(conn.attempt) THEN ConnReturn(conn, "false")
               ELSE IF AlreadyConnected(conn) THEN ConnReturn(conn, "true")
               ELSE [conn EXCEPT !.pc = "connect", !.attempts = conn.attempts + 1]
    /\ UNCHANGED <<hedger_vars, sink_vars, parser, iv_calc, rv_calc, delta_calc, cache_run>>

\* Line 33: ib.connectAsync ends
ConnConnect ==
    /\ conn.pc = "connect"
    /\ \E outcome \in ConnectOutcomes :
          conn' = [conn EXCEPT !.pc = IF outcome = "raised" THEN "except" ELSE "stabilize",
                               !.connected = (outcome = "connected"),
                               !.history = Append(conn.history, outcome)]
    /\ UNCHANGED <<hedger_vars, sink_vars, parser, iv_calc, rv_calc, delta_calc, cache_run>>

\* Lines 34-39: asyncio.sleep(1), during which the session may drop, and the
\* test of the session
ConnStabilize ==
    /\ conn.pc = "stabilize"
    /\ \E dropped \in BOOLEAN :
          LET n == Len(conn.history)
              c == IF conn.connected /\ dropped
                   THEN [conn EXCEPT !.connected = FALSE, !.history[n] = "dropped"]
                   ELSE conn
          IN  conn' = IF c.connected THEN ConnReturn(c, "true") ELSE NextAttempt(c)
    /\ UNCHANGED <<hedger_vars, sink_vars, parser, iv_calc, rv_calc, delta_calc, cache_run>>

\* Lines 44-47: the handler, and its sleep except after the last attempt
ConnExcept ==
    /\ conn.pc = "except"
    /\ conn' = IF conn.attempt < retry_count - 1 THEN [conn EXCEPT !.pc = "delay"]
               ELSE NextAttempt(conn)
    /\ UNCHANGED <<hedger_vars, sink_vars, parser, iv_calc, rv_calc, delta_calc, cache_run>>

\* Line 47: asyncio.sleep(config.ib.retry_delay) ends
ConnDelay ==
    /\ conn.pc = "delay"
    /\ conn' = NextAttempt(conn)
    /\ UNCHANGED <<hedger_vars, sink_vars, parser, iv_calc, rv_calc, delta_calc, cache_run>>

ConnNext == ConnLoop \/ ConnConnect \/ ConnStabilize \/ ConnExcept \/ ConnDelay

ConnSpec == ConnInit /\ [][ConnNext]_vars

(***************************************************************************)
(* calculate_theoretical_delta (ib_connection.py, lines 135-165) at two    *)
(* prices of the underlying for one option contract                        *)
(***************************************************************************)
\* Strikes and prices of the underlying, in thousandths of the currency
DeltaStrikes == {500, 100000, 5000000}

DeltaPrices == {1, 500, 50000, 99999, 100000, 100001, 110000, 150000, 300000, 5000000}

DeltaInit ==
    /\ HedgerInit
    /\ ~single
    /\ SinkEmpty
    /\ ParserIdle
    /\ IvIdle
    /\ RvIdle
    /\ ConnIdle
    /\ CacheIdle
    /\ \E right \in {"C", "P"}, strike \in DeltaStrikes, low, high \in DeltaPrices :
          /\ low <= high
          /\ delta_calc = [pc |-> "called", right |-> right, strike |-> strike,
                           low |-> low, high |-> high, delta_low |-> 0, delta_high |-> 0]

\* calculate_theoretical_delta(contract, low) and (contract, high)
DeltaCompute ==
    /\ delta_calc.pc = "called"
    /\ LET contract == [right |-> delta_calc.right, strike |-> delta_calc.strike]
       IN  delta_calc' =
              [delta_calc EXCEPT
                  !.pc = "done",
                  !.delta_low = calculate_theoretical_delta(contract, delta_calc.low),
                  !.delta_high = calculate_theoretical_delta(contract, delta_calc.high)]
    /\ UNCHANGED <<hedger_vars, sink_vars, parser, iv_calc, rv_calc, conn, cache_run>>

DeltaSpec == DeltaInit /\ [][DeltaCompute]_vars

(***************************************************************************)
(* The delta cache of one option contract (ib_connection.py, lines 17-20,  *)
(* 117-133, 188-213) under get_delta calls of two threads: the hedge loop  *)
(* (hedge_position, line 288) and the dashboard (update_current_delta).    *)
(* A call is followed one statement at a time; the clock counts seconds    *)
(* and a call takes less than a second.  A timestamp is a sequence: empty  *)
(* for a contract that is not in the dict, or the second it was set.       *)
(***************************************************************************)
\* MARKET_DATA_CACHE_TIME, seconds
MARKET_DATA_CACHE_TIME == 5

\* The threads that call get_delta
CacheCallers == {"hedger", "dashboard"}

\* get_cached_market_data returns the cached delta: the contract is in
\* market_data_cache and its timestamp is less than the cache time old
CachedDeltaFresh(timestamp, now) ==
    timestamp # << >> /\ now - timestamp[1] < MARKET_DATA_CACHE_TIME

\* can_request_market_data, lines 119-123: the test that returns False
RequestTooSoon(last_request, now) ==
    last_request # << >> /\ now - last_request[1] < MARKET_DATA_CACHE_TIME

CacheInit ==
    /\ HedgerInit
    /\ ~single
    /\ SinkEmpty
    /\ ParserIdle
    /\ IvIdle
    /\ RvIdle
    /\ ConnIdle
    /\ DeltaIdle
    /\ cache_run = [pc |-> [k \in CacheCallers |-> "idle"], clock |-> 0,
                    cache |-> << >>, last |-> << >>, computed |-> << >>,
                    used |-> {}, refused |-> FALSE]

\* The caller's statement is done and it is at next
CacheGoto(k, next) == [cache_run EXCEPT !.pc[k] = next]

\* get_delta is called on a position of the contract, lines 167-187
CacheCall(k) ==
    /\ cache_run.pc[k] = "idle"
    /\ cache_run' = [CacheGoto(k, "cached") EXCEPT !.refused = FALSE]
    /\ UNCHANGED <<hedger_vars, sink_vars, parser, iv_calc, rv_calc, conn, delta_calc>>

\* Lines 189-195: get_cached_market_data; a cached delta is used for the
\* position and get_delta returns (lines 216-219)
CacheRead(k) ==
    /\ cache_run.pc[k] = "cached"
    /\ cache_run' =
          IF CachedDeltaFresh(cache_run.cache, cache_run.clock)
          THEN [CacheGoto(k, "idle") EXCEPT
                   !.used = cache_run.used \cup {cache_run.clock - cache_run.cache[1]}]
          ELSE CacheGoto(k, "check")
    /\ UNCHANGED <<hedger_vars, sink_vars, parser, iv_calc, rv_calc, conn, delta_calc>>

\* can_request_market_data, lines 119-123; when it returns False get_delta
\* uses the default delta and returns (lines 210-219).  refused: the call was
\* refused a computation although the cached delta had expired.
CacheCheck(k) ==
    /\ cache_run.pc[k] = "check"
    /\ cache_run' =
          IF RequestTooSoon(cache_run.last, cache_run.clock)
          THEN [CacheGoto(k, "idle") EXCEPT
                   !.refused = /\ cache_run.cache # << >>
                               /\ ~CachedDeltaFresh(cache_run.cache, cache_run.clock)]
          ELSE CacheGoto(k, "set")
    /\ UNCHANGED <<hedger_vars, sink_vars, parser, iv_calc, rv_calc, conn, delta_calc>>

\* can_request_market_data, lines 124-125
CacheSet(k) ==
    /\ cache_run.pc[k] = "set"
    /\ cache_run' = [CacheGoto(k, "lookup") EXCEPT !.last = <<cache_run.clock>>]
    /\ UNCHANGED <<hedger_vars, sink_vars, parser, iv_calc, rv_calc, conn, delta_calc>>

\* Lines 199-206: the price of the underlying is looked up in the portfolio
\* and the delta computed; without a portfolio item the default delta is
\* used and get_delta returns
CacheLookup(k) ==
    /\ cache_run.pc[k] = "lookup"
    /\ \E in_portfolio \in BOOLEAN :
          cache_run' =
             IF in_portfolio
             THEN [CacheGoto(k, "store") EXCEPT
                      !.computed = Append(cache_run.computed, cache_run.clock)]
             ELSE CacheGoto(k, "idle")
    /\ UNCHANGED <<hedger_vars, sink_vars, parser, iv_calc, rv_calc, conn, delta_calc>>

\* Line 208: the delta is cached, and get_delta returns (lines 216-219)
CacheStore(k) ==
    /\ cache_run.pc[k] = "store"
    /\ cache_run' = [CacheGoto(k, "idle") EXCEPT !.cache = <<cache_run.clock>>]
    /\ UNCHANGED <<hedger_vars, sink_vars, parser, iv_calc, rv_calc, conn, delta_calc>>

\* A second passes between the calls
CacheTick ==
    /\ ~CacheIdle
    /\ \A k \in CacheCallers : cache_run.pc[k] = "idle"
    /\ cache_run.clock < MaxClock
    /\ cache_run' = [cache_run EXCEPT !.clock = cache_run.clock + 1]
    /\ UNCHANGED <<hedger_vars, sink_vars, parser, iv_calc, rv_calc, conn, delta_calc>>

CacheNext ==
    \/ \E k \in CacheCallers :
          \/ CacheCall(k)
          \/ CacheRead(k)
          \/ CacheCheck(k)
          \/ CacheSet(k)
          \/ CacheLookup(k)
          \/ CacheStore(k)
    \/ CacheTick

CacheSpec == CacheInit /\ [][CacheNext]_vars

(***************************************************************************)
(* Properties                                                              *)
(***************************************************************************)
\* A thread inside a hedge evaluation, from the position fetch to the end of
\* execute_trade
Evaluating(t) == threads[t].pc \in {"pend", "place", "wait"}

\* A thread that has decided to trade: in execute_trade, at or after placeOrder
Trading(t) == threads[t].pc \in {"place", "wait"}

\* A thread still in the loop of run_auto_hedger
InLoop(t) == threads[t].pc \notin {"finally", "exited"}

\* The hedger's own working orders on an instrument
OwnWorkingOn(instr) == {i \in WorkingOn(instr, trades) : trades[i].own}

\* The delta of the positions of key as get_delta values them with no cache
PlainDelta(key) ==
    SumDeltas(get_current_positions(key, positions, FALSE), << >>, {}, price).delta

\* C1: an evaluation that finds a working order (Submitted, PreSubmitted or
\* PendingSubmit) on its instrument when it makes its pending checks submits
\* no order: it does not go on to ib.placeOrder.
C1_PendingSuppression ==
    [][\A t \in ThreadIds :
          (threads[t].pc = "pend" /\ WorkingOn(InstrOfKey(threads[t].key), trades) # {})
              => threads'[t].pc # "place"]_vars

\* C1: the case is met: an evaluation ended at a pending check while a working
\* order was on its instrument
C1_Witness ==
    \E t \in ThreadIds :
        /\ threads[t].outcome \in {"pending_orders", "trade_skipped"}
        /\ WorkingOn(InstrOfKey(threads[t].key), trades) # {}

\* C2: at most one hedge order per instrument is in flight at any time: the
\* hedger's working orders on one instrument are never two.
C2_OneOrderInFlight ==
    \A instr \in Instruments : Cardinality(OwnWorkingOn(instr)) <= 1

\* C3: at most one polling loop is alive for a position key, and two hedge
\* evaluations of the same key never overlap.
C3_OneLoopPerKey ==
    \A t, u \in ThreadIds :
        (t # u /\ threads[t].key = threads[u].key)
            => /\ ~(InLoop(t) /\ InLoop(u))
               /\ ~(Evaluating(t) /\ Evaluating(u))

\* C4: start_auto_hedger called for a key whose hedger is running returns
\* False, spawns no thread and leaves the hedger's state and the running
\* thread's parameters as they were.
C4_StartWhileRunning ==
    [][(DashboardStart /\ IsRunning(position_var))
          => (start_result' = "False" /\ UNCHANGED <<hedger_status, threads>>)]_vars

\* C4: the case is met: the last start was refused while the key's hedger runs
C4_Witness ==
    /\ start_result = "False"
    /\ IsRunning(position_var)
    /\ \E t \in ThreadIds : threads[t].key = position_var /\ InLoop(t)

\* C5: a hedger whose last three cycles each had a broker call raise has
\* stopped: its thread has left the loop, so it makes no further evaluation.
C5_AutoStopAfterThreeErrors ==
    \A t \in ThreadIds :
        threads[t].streak >= max_errors => ~Evaluating(t)

\* C6: an order is submitted only when |diff| > threshold: a thread goes to
\* execute_trade only with a difference beyond its threshold, so with
\* |diff| <= threshold (equality included) no order is submitted.
C6_ThresholdGate ==
    \A t \in ThreadIds :
        Trading(t) => Abs(threads[t].delta_difference) > threads[t].delta_change_threshold

\* C6: the case is met: an evaluation whose difference equalled the threshold
\* ended with no order
C6_Witness ==
    \E t \in ThreadIds :
        /\ threads[t].outcome = "within_threshold"
        /\ trades = << >>
        /\ Abs(threads[t].target_delta - PlainDelta(threads[t].key))
               = threads[t].delta_change_threshold

\* C7: every order the hedger submits has a quantity of at most max_order_qty
\* and the side of the unclamped quantity (BUY when it is positive, SELL when
\* it is negative), for every max_order_qty start_auto_hedger accepts.
C7_ClampKeepsSign ==
    \A t \in ThreadIds :
        threads[t].pc = "wait"
            => /\ trades[threads[t].trade].quantity <= threads[t].max_order_qty
               /\ trades[threads[t].trade].action = OrderAction(threads[t].original_qty)

\* C8: the hedger never submits a zero-quantity order: no thread is in
\* execute_trade with quantity 0 and no order of the hedger has quantity 0.
C8_NoZeroQuantityOrder ==
    /\ \A t \in ThreadIds : Trading(t) => threads[t].order_qty # 0
    /\ \A i \in 1..Len(trades) : trades[i].own => trades[i].quantity > 0

\* C8: the case is met: an evaluation beyond its threshold found quantity 0
\* after the limit and skipped the order
C8_Witness ==
    \E t \in ThreadIds :
        /\ threads[t].outcome = "zero_quantity"
        /\ trades = << >>
        /\ Abs(threads[t].target_delta - PlainDelta(threads[t].key))
               > threads[t].delta_change_threshold

\* C9: for a stock key beyond the threshold, the raw order quantity is
\* round(diff), the nearest integer.
C9_StockQuantityRounds ==
    \A t \in ThreadIds :
        (Trading(t) /\ ~IsOption(HedgingContract(threads[t].key)))
            => threads[t].original_qty = RoundDiv(threads[t].delta_difference, 10)

\* C10: for an option key beyond the threshold, the raw order quantity is
\* round(diff / (perContractDelta * multiplier)), perContractDelta being the
\* per-contract delta get_delta valued the contract's position with.
C10_OptionQuantityRounds ==
    \A t \in ThreadIds :
        (Trading(t) /\ IsOption(HedgingContract(threads[t].key)))
            => threads[t].original_qty
                   = RoundDiv(threads[t].delta_difference * 100,
                              threads[t].contract_delta
                                  * HedgingContract(threads[t].key).multiplier)

\* A position key that is a ticker symbol: it holds no whitespace
IsTicker(position_key) == ~Contains(KeyChars(position_key), " ")

\* C11: for every stock key (a ticker without whitespace, whatever its
\* letters) the evaluation resolves a stock contract and goes on to the
\* position fetch, and for every well-formed option key it resolves an option
\* contract: no evaluation ends for want of a contract.
C11_ContractResolved ==
    \A t \in ThreadIds :
        threads[t].pc \notin {"start", "loop"}
            => /\ threads[t].outcome # "no_contract"
               /\ HedgingContract(threads[t].key).secType
                      = IF IsTicker(threads[t].key) THEN "STK" ELSE "OPT"

\* C12: the pending-order check counts only working orders on the exact
\* instrument of the key: an evaluation that makes its pending checks while no
\* working order is on its instrument does not skip for pending orders.
C12_ExactInstrument ==
    [][\A t \in ThreadIds :
          (threads[t].pc = "pend" /\ WorkingOn(InstrOfKey(threads[t].key), trades) = {})
              => threads'[t].outcome \notin {"pending_orders", "trade_skipped"}]_vars

\* No position of the account is a position of the key
NoMatch(position_key) ==
    \A i \in 1..Len(positions) : positions[i].instr # InstrOfKey(position_key)

\* C13: when the position fetch finds no position matching the key, the
\* evaluation submits no order, the cycle is not counted as an error
\* (error_count is 0 after it) and the hedger stays running: the thread sleeps
\* until the next cycle.
C13_NoPositionSkips ==
    [][\A t \in ThreadIds :
          (/\ threads[t].pc = "loop"
           /\ threads'[t] # threads[t]
           /\ IsRunning(threads[t].key)
           /\ HedgingContract(threads[t].key).secType # "NONE"
           /\ NoMatch(threads[t].key))
              => /\ threads'[t].pc = "sleep"
                 /\ threads'[t].outcome = "no_positions"
                 /\ threads'[t].error_count = 0
                 /\ trades' = trades
                 /\ hedger_status' = hedger_status]_vars

\* C13: the case is met: with positions in the account but none of the key, an
\* evaluation ended for want of positions and the hedger still runs
C13_Witness ==
    \E t \in ThreadIds :
        /\ threads[t].outcome = "no_positions"
        /\ threads[t].pc = "sleep"
        /\ positions # << >>
        /\ NoMatch(threads[t].key)
        /\ IsRunning(threads[t].key)
        /\ trades = << >>

\* C14: whenever a position fetch or an order submission raises during a hedge
\* cycle, an alert with status ERROR is added to the alert sink in that cycle.
C14_ErrorAlertOnFailure ==
    \A t \in ThreadIds :
        (/\ threads[t].pc = "sleep"
         /\ \/ threads[t].outcome = "no_positions" /\ threads[t].streak > 0
            \/ threads[t].outcome = "order_error")
            => \E i \in 1..Len(threads[t].alerts) : threads[t].alerts[i] = "ERROR"

\* Every entry the sink shows for the thread's alerts has this status
AlertsShow(th, status) ==
    /\ th.alerts # << >>
    /\ \A i \in 1..Len(th.alerts) : th.alerts[i] = status

\* C15: for every order attempt an alert with status PENDING is in the sink
\* before ib.placeOrder is called, and once the call has returned and the
\* response is read the alert shows it: FILLED for Filled, PENDING for
\* Submitted, PreSubmitted and PendingSubmit, FAILED for any other status or
\* when no trade is returned.
C15_AlertFollowsOrder ==
    [][\A t \in ThreadIds :
          /\ threads'[t].pc = "place" => threads'[t].alerts = <<"PENDING">>
          /\ threads'[t].pc = "wait" => threads'[t].alerts = <<"PENDING">>
          /\ (threads[t].pc = "wait" /\ threads'[t].pc = "sleep"
                  /\ threads'[t].outcome # "order_error")
                 => AlertsShow(threads'[t],
                               CASE trades[threads[t].trade].status = "Filled" -> "FILLED"
                                 [] trades[threads[t].trade].status
                                        \in {"Submitted", "PreSubmitted", "PendingSubmit"}
                                      -> "PENDING"
                                 [] OTHER -> "FAILED")
          /\ (threads[t].pc = "place" /\ threads'[t].pc = "sleep"
                  /\ threads'[t].outcome # "order_error")
                 => AlertsShow(threads'[t], "FAILED")]_vars

\* C15: the case is met: an order of the hedger was cancelled and the alert of
\* its attempt shows FAILED
C15_Witness ==
    \E t \in ThreadIds :
        /\ threads[t].outcome = "order_failed"
        /\ AlertsShow(threads[t], "FAILED")
        /\ \E i \in 1..Len(trades) : trades[i].own /\ trades[i].status = "Cancelled"

\* The step from old to new appended one entry to a buffer of capacity cap,
\* evicting the oldest entry when the buffer was full
AppendedEvictingOldest(old, new, cap) ==
    /\ new # << >>
    /\ new = IF Len(old) < cap THEN Append(old, new[Len(new)])
             ELSE Append(Tail(old), new[Len(new)])

\* C16: the recent-alerts buffer holds at most 20 entries, the alert queue at
\* most 100 and the hedge log at most 100; every change of a buffer appends
\* one entry at its end, evicting the oldest entry when the buffer is at
\* capacity (for the queue, the handler of queue.Full removes the oldest entry
\* first), so a buffer holds its most recently added entries in insertion
\* order.
C16_BoundedBuffers ==
    [][/\ Len(recent_alerts') <= recent_alerts_maxlen
       /\ Len(alert_queue') <= alert_queue_maxsize
       /\ Len(hedge_log') <= hedge_log_maxlen
       /\ recent_alerts' # recent_alerts
             => AppendedEvictingOldest(recent_alerts, recent_alerts', recent_alerts_maxlen)
       /\ hedge_log' # hedge_log
             => AppendedEvictingOldest(hedge_log, hedge_log', hedge_log_maxlen)
       /\ alert_queue' # alert_queue
             => \/ /\ Len(alert_queue) < alert_queue_maxsize
                   /\ AppendedEvictingOldest(alert_queue, alert_queue', alert_queue_maxsize)
                \/ alert_queue' = Tail(alert_queue)]_vars

\* C16: the case is met: the three buffers are at capacity and each has
\* evicted its oldest entry for an added one
C16_Witness ==
    /\ Len(recent_alerts) = recent_alerts_maxlen
    /\ Len(alert_queue) = alert_queue_maxsize
    /\ Len(hedge_log) = hedge_log_maxlen
    /\ alert_queue[1] > 1
    /\ hedge_log[1] > 1
    /\ recent_alerts[Len(recent_alerts)] = created
    /\ created > alert_queue_maxsize

\* C17: when loops call add_alert concurrently, every call completes without
\* raising and appends its alert to the recent-alerts buffer.
C17_ConcurrentAddAlert ==
    \A c \in Callers :
        (callers[c].pc = "idle" /\ callers[c].alert # 0) => callers[c].result = "added"

\* The loop thread t is alive and its key has been stopped
Stopped(t) ==
    /\ t \in ThreadIds
    /\ threads[t].pc # "exited"
    /\ ~IsRunning(threads[t].key)

\* The thread t waits to place an order that the bound on orders leaves out
OrdersExhausted(t) ==
    /\ t \in ThreadIds
    /\ threads[t].pc = "place"
    /\ Len(trades) >= MaxOrders

\* C18: after stop_auto_hedger on a running key, with no later start, the
\* loop of that key eventually exits, and is_hedger_running(key) stays False
\* from the stop onwards: only a start makes it True again.
C18_StopEndsLoop ==
    /\ \A t \in 1..MaxThreads :
          Stopped(t) ~> \/ t \in ThreadIds /\ threads[t].pc = "exited"
                        \/ t \in ThreadIds /\ IsRunning(threads[t].key)
                        \/ OrdersExhausted(t)
    /\ [][\A k \in DOMAIN hedger_status :
             (~IsRunning(k) /\ hedger_status'[k]) => ThreadIds' # ThreadIds]_vars

\* C18: the case is met: with no broker failure, a loop has exited and its key
\* is not running, which only a stop brings about
C18_Witness ==
    /\ ~faulty
    /\ \E t \in ThreadIds : threads[t].pc = "exited" /\ ~IsRunning(threads[t].key)

\* The thread t is between evaluations: before the while condition or
\* before the first statement of hedge_position
BetweenEvaluations(t) == threads[t].pc \in {"start", "sleep", "loop"}

\* C19: once stop_auto_hedger has returned and no start follows, a loop that
\* is between evaluations begins no new one: its next step leaves the loop or
\* returns from hedge_position at once, and it places no order.  Only an
\* evaluation that was in progress at the stop completes.
C19_NoEvaluationAfterStop ==
    [][\A t \in ThreadIds :
          (BetweenEvaluations(t) /\ ~IsRunning(threads[t].key)
              /\ threads'[t] # threads[t])
             => /\ ~Evaluating(t)'
                /\ threads'[t].outcome \in {"none", "not_running"}
                /\ Len(trades') = Len(trades)]_vars

\* C19: the case is met: a stop came between the while condition and
\* hedge_position, which returned without an evaluation
C19_Witness ==
    \E t \in ThreadIds :
        /\ threads[t].pc = "sleep"
        /\ threads[t].outcome = "not_running"
        /\ ~IsRunning(threads[t].key)

\* The loop t is in execute_trade for a key whose only position is a stock
\* position: the difference it trades on comes from one get_delta call
OnStockPosition(t) ==
    /\ Trading(t)
    /\ Len(threads[t].positions) = 1
    /\ BrokerContract(threads[t].positions[1].instr).secType = "STK"

\* C20: for a stock position of any integer quantity q, positive or negative,
\* get_delta returns exactly q (in tenths: 10 * q): the current delta the
\* evaluation worked with, target_delta - delta_difference, is the position.
C20_StockDeltaExact ==
    \A t \in ThreadIds :
        OnStockPosition(t)
            => threads[t].target_delta - threads[t].delta_difference
                   = 10 * threads[t].positions[1].qty

\* C20: the case is met: get_delta has valued a short stock position
C20_Witness ==
    \E t \in ThreadIds : OnStockPosition(t) /\ threads[t].positions[1].qty < 0

\* The loop t is in execute_trade for a key whose only position is an option
\* position: the difference it trades on comes from one get_delta call
OnOptionPosition(t) ==
    /\ Trading(t)
    /\ Len(threads[t].positions) = 1
    /\ BrokerContract(threads[t].positions[1].instr).secType = "OPT"

\* The multiplier the delta of an option position is to be taken with
MultiplierOrDefault(contract) ==
    IF contract.multiplier = 0 THEN DefaultMultiplier ELSE contract.multiplier

\* C21: for an option position get_delta returns quantity * perContractDelta
\* * multiplier, the multiplier being 100 when the contract carries none,
\* whichever source gave the per-contract delta (amounts in tenths of a share,
\* the per-contract delta in thousandths).
C21_OptionDelta ==
    \A t \in ThreadIds :
        OnOptionPosition(t)
            => 100 * (threads[t].target_delta - threads[t].delta_difference)
                  = threads[t].positions[1].qty * threads[t].contract_delta
                      * MultiplierOrDefault(BrokerContract(threads[t].positions[1].instr))

\* C22: a call position of n contracts for which neither a cached delta nor a
\* price of the underlying is available has the delta n * 0.5 (in tenths of a
\* share: 5 * n), as the test of get_delta asserts for one contract.
C22_CallFallbackDelta ==
    \A t \in ThreadIds :
        (/\ OnOptionPosition(t)
         /\ BrokerContract(threads[t].positions[1].instr).right = "C"
         /\ price = 0
         /\ ~HasCachedMarketData(market_data_cache,
                                 BrokerContract(threads[t].positions[1].instr).conId))
            => threads[t].target_delta - threads[t].delta_difference
                   = 5 * threads[t].positions[1].qty

\* The positions of the account whose instrument is the one of the key
PositionsOfKey(position_key) ==
    SelectSeq(positions, LAMBDA pos : pos.instr = InstrOfKey(position_key))

\* The delta of one position (tenths of a share) as get_delta returns it, for
\* the per-contract delta (thousandths) the evaluation valued options with
PositionDelta(pos, contract_delta) ==
    LET contract == BrokerContract(pos.instr)
    IN  IF contract.secType = "STK" THEN 10 * pos.qty
        ELSE IF contract.multiplier = 0 THEN 0
        ELSE (pos.qty * contract_delta * contract.multiplier) \div 100

RECURSIVE AggregateDelta(_, _)
AggregateDelta(poss, contract_delta) ==
    IF poss = << >> THEN 0
    ELSE PositionDelta(Head(poss), contract_delta)
            + AggregateDelta(Tail(poss), contract_delta)

\* C23: the aggregate delta an evaluation compares with the target is the sum
\* of get_delta over exactly the current positions whose identifier is the
\* position key: the evaluation keeps those positions and no other, trades on
\* the target minus their sum, and with no such position it ends without an
\* order.
C23_AggregateDelta ==
    [][\A t \in ThreadIds :
          /\ (threads[t].pc = "loop" /\ threads'[t].pc = "pend")
                => threads'[t].positions = PositionsOfKey(threads[t].key)
          /\ (threads[t].pc = "loop" /\ threads'[t] # threads[t]
                /\ PositionsOfKey(threads[t].key) = << >>)
                => threads'[t].pc = "sleep" /\ Len(trades') = Len(trades)
          /\ (threads[t].pc = "pend" /\ threads'[t].pc = "place")
                => threads'[t].delta_difference
                      = threads[t].target_delta
                          - AggregateDelta(threads[t].positions,
                                           threads'[t].contract_delta)]_vars

\* C23: the case is met: an evaluation trades on the sum over two positions
\* of its key, in an account that holds other instruments of the underlying
C23_Witness ==
    \E t \in ThreadIds :
        /\ Trading(t)
        /\ Len(threads[t].positions) = 2
        /\ Len(positions) > 2

\* The symbol that the fields of a parsed option write, with one blank
Reserialized(underlying, expiry, right, strike) ==
    OptionKey(underlying, 1, SliceFrom(expiry, 2), right, strike)

\* C24: parsing a well-formed option symbol, whatever the number of blanks
\* between its two parts, yields its underlying, the expiry 20YYMMDD, its
\* right and its strike (digits / 1000); writing those fields as a symbol
\* again gives the symbol up to its blanks; both parsers agree.
C24_OptionKeyRoundTrip ==
    parser.wellformed =>
        /\ parser.hedger = "done" =>
              /\ parser.hedger_data.secType = "OPT"
              /\ parser.hedger_data.symbol = parser.fields.underlying
              /\ parser.hedger_data.lastTradeDateOrContractMonth
                    = <<"2", "0">> \o parser.fields.date
              /\ parser.hedger_data.right = parser.fields.right
              /\ parser.hedger_data.strike = parser.fields.strike
              /\ Reserialized(parser.hedger_data.symbol,
                              parser.hedger_data.lastTradeDateOrContractMonth,
                              parser.hedger_data.right, parser.hedger_data.strike)
                    = JoinBlank(Split(parser.symbol))
        /\ parser.iv = "done" =>
              /\ parser.iv_data.underlying = parser.fields.underlying
              /\ parser.iv_data.expiry = <<"2", "0">> \o parser.fields.date
              /\ parser.iv_data.right = parser.fields.right
              /\ parser.iv_data.strike = parser.fields.strike
              /\ Reserialized(parser.iv_data.underlying, parser.iv_data.expiry,
                              parser.iv_data.right, parser.iv_data.strike)
                    = JoinBlank(Split(parser.symbol))
        /\ (parser.hedger = "done" /\ parser.iv = "done") =>
              /\ parser.hedger_data.symbol = parser.iv_data.underlying
              /\ parser.hedger_data.lastTradeDateOrContractMonth = parser.iv_data.expiry
              /\ parser.hedger_data.right = parser.iv_data.right
              /\ parser.hedger_data.strike = parser.iv_data.strike

\* C24: the case is met: both parsers have parsed a well-formed symbol with
\* several blanks between its parts
C24_Witness ==
    /\ parser.wellformed
    /\ parser.hedger = "done"
    /\ parser.iv = "done"
    /\ Len(parser.symbol) > Len(JoinBlank(Split(parser.symbol))) + 1

\* C25: for every malformed option symbol the hedger's parser reports
\* failure and returns no parsed contract description.
C25_MalformedRejected ==
    (~parser.wellformed /\ parser.hedger = "done")
        => parser.hedger_data.secType = "NONE"

\* C26: calculate_iv returns a volatility only when the search converged (the
\* model price at the returned sigma is within the tolerance of the market
\* price) or the price was clamped to a bound; a bisection that ends without
\* meeting the tolerance reports failure.
C26_IvOnlyWhenConverged ==
    (iv_calc.pc = "done" /\ iv_calc.result # NoSigma)
        => \/ iv_calc.how \in {"clamp_low", "clamp_high"}
           \/ WithinTolerance(iv_calc.result, iv_calc.root, iv_calc.vega)

\* C27: for valid inputs calculate_iv returns the lower bound when the market
\* price is at or below the model price at sigma_low, the upper bound when it
\* is at or above the model price at sigma_high; otherwise the market price
\* stays bracketed between the prices at the current low and high sigma, and
\* every returned sigma lies within the bounds.
C27_IvBracket ==
    (iv_calc.pc # "idle" /\ iv_calc.valid /\ ~IsNaN(iv_calc.root)) =>
        /\ (iv_calc.pc = "done" /\ iv_calc.root <= sigma_low_bound)
              => iv_calc.result = sigma_low_bound
        /\ (iv_calc.pc = "done" /\ iv_calc.root >= sigma_high_bound)
              => iv_calc.result = sigma_high_bound
        /\ (iv_calc.pc = "loop" \/ iv_calc.how \in {"converged", "fallthrough"})
              => /\ sigma_low_bound <= iv_calc.sigma_low
                 /\ iv_calc.sigma_low <= iv_calc.root
                 /\ iv_calc.root <= iv_calc.sigma_high
                 /\ iv_calc.sigma_high <= sigma_high_bound
        /\ iv_calc.pc = "done"
              => /\ iv_calc.result # NoSigma
                 /\ sigma_low_bound <= iv_calc.result
                 /\ iv_calc.result <= sigma_high_bound
                 /\ iv_calc.how \in {"converged", "fallthrough"}
                       => /\ iv_calc.sigma_low <= iv_calc.result
                          /\ iv_calc.result <= iv_calc.sigma_high

\* C27: the case is met: a bisection of several iterations has returned a
\* sigma strictly between the bounds
C27_Witness ==
    /\ iv_calc.pc = "done"
    /\ iv_calc.valid
    /\ ~IsNaN(iv_calc.root)
    /\ iv_calc.how \in {"converged", "fallthrough"}
    /\ iv_calc.iterations > 5
    /\ sigma_low_bound < iv_calc.result
    /\ iv_calc.result < sigma_high_bound

\* A returned call whose market price is the model price at a volatility
\* within the bounds of the search: calculate_iv(black_scholes(sigma))
RoundTrip ==
    /\ iv_calc.pc = "done"
    /\ iv_calc.valid
    /\ sigma_low_bound <= iv_calc.root
    /\ iv_calc.root <= sigma_high_bound

\* The returned volatility is within 1e-4 (10000 units of 1e-8) of the one
\* the price was made from
Recovered ==
    /\ iv_calc.result # NoSigma
    /\ Abs(iv_calc.result - iv_calc.root) <= 10000

\* C28 as stated: for any sigma in [0.0001, 5.0] with valid inputs,
\* calculate_iv(black_scholes(S, K, T, r, sigma), S, K, T, r) recovers sigma
\* within 1e-4.
C28_RoundTripAnySigma == RoundTrip => Recovered

\* C28 as amended: calculate_iv recovers sigma within 1e-4 for S = 100,
\* K = 100, T = 0.25, r = 0.03, sigma = 0.30, and for any valid inputs whose
\* price changes by at least the tolerance 1e-5 over a change of 1e-4 in
\* sigma (a slope of at least 0.1 around sigma).
C28_RoundTrip == (RoundTrip /\ iv_calc.vega >= 100) => Recovered

\* C28: the case is met: the bisection has converged for the option at the
\* money with sigma = 0.30, whose price has a slope of 20
C28_Witness ==
    /\ RoundTrip
    /\ iv_calc.root = 30000000
    /\ iv_calc.vega = 20000
    /\ iv_calc.how = "converged"
    /\ Recovered

\* calculate_returns was given a flat series of at least 3 prices
FlatSeries ==
    /\ rv_calc.pc \notin {"idle", "called"}
    /\ Len(rv_calc.prices) >= 3
    /\ \A i \in 1..Len(rv_calc.prices) : rv_calc.prices[i] = rv_calc.prices[1]

\* C29: the realized volatility of a flat price series (all prices equal, at
\* least 3 prices) is 0, returned as a value and not as a failure.
C29_FlatSeriesZero ==
    (FlatSeries /\ rv_calc.pc = "done")
        => rv_calc.result.kind = "value" /\ rv_calc.result.num = 0

\* A valid return x lies farther than 4 standard deviations from the mean of
\* the valid returns xs: |x - mean|^2 > 16 * variance, both sides times n^2
FartherThanFourStd(x, xs) ==
    LET n == Len(xs)
        d == n * x - SeqSum(xs)
    IN  d * d > 16 * (n * SeqSumSq(xs) - SeqSum(xs) * SeqSum(xs))

\* C30: calculate_returns drops the returns farther than 4 standard deviations
\* from the mean when that removes at most 20% of the valid returns, and fails
\* when it would remove more; it never returns a sample from which more than
\* 20% of the valid returns were removed.
C30_OutlierPolicy ==
    LET valid == rv_calc.returns.valid
        kept  == SelectSeq(valid, LAMBDA x : ~FartherThanFourStd(x, valid))
    IN  (rv_calc.pc \in {"returns", "done"} /\ valid # << >>) =>
            /\ rv_calc.returns.ok
                  => /\ rv_calc.returns.clean = kept
                     /\ 5 * (Len(valid) - Len(rv_calc.returns.clean)) <= Len(valid)
            /\ 5 * (Len(valid) - Len(kept)) <= Len(valid) => rv_calc.returns.ok
            /\ 5 * (Len(valid) - Len(kept)) > Len(valid) => ~rv_calc.returns.ok

\* C30: the case is met: calculate_returns has dropped an outlier and returned
\* the other returns
C30_Witness ==
    /\ rv_calc.pc \in {"returns", "done"}
    /\ rv_calc.returns.ok
    /\ Len(rv_calc.returns.clean) < Len(rv_calc.returns.valid)

\* connect_ib has returned
ConnReturned == conn.pc = "done"

\* C31: when the broker session is already connected, connect_ib returns True
\* without making any connection attempt.
C31_AlreadyConnected ==
    (conn.pc # "idle" /\ conn.initially) =>
        /\ conn.attempts = 0
        /\ conn.history = << >>
        /\ ConnReturned => conn.result = "true"

\* C31: the case is met: connect_ib has returned on a connected session
C31_Witness == ConnReturned /\ conn.initially /\ conn.result = "true"

\* C32: when the session is not connected and the connection call completes
\* without error, connect_ib returns True after exactly one connection attempt.
C32_OneAttemptSuffices ==
    (/\ ConnReturned
     /\ ~conn.initially
     /\ conn.history # << >>
     /\ \A i \in 1..Len(conn.history) : conn.history[i] # "raised") =>
        conn.result = "true" /\ conn.attempts = 1

InRightRange(right, delta) ==
    IF right = "C" THEN 0 < delta /\ delta <= 1000 ELSE -1000 <= delta /\ delta < 0

\* C33: calculate_theoretical_delta is non-decreasing in the underlying price
\* for a fixed strike, equals +0.5 for a call and -0.5 for a put when the price
\* equals the strike, and for every positive strike and price stays in (0, 1]
\* for calls and [-1, 0) for puts.
C33_TheoreticalDelta ==
    delta_calc.pc = "done" =>
        LET at_the_money == IF delta_calc.right = "C" THEN 500 ELSE -500
        IN  /\ delta_calc.delta_low <= delta_calc.delta_high
            /\ delta_calc.low = delta_calc.strike => delta_calc.delta_low = at_the_money
            /\ delta_calc.high = delta_calc.strike => delta_calc.delta_high = at_the_money
            /\ InRightRange(delta_calc.right, delta_calc.delta_low)
            /\ InRightRange(delta_calc.right, delta_calc.delta_high)

\* C33: the case is met: the delta of a put was computed at the strike and at
\* a price of more than twice the strike
C33_Witness ==
    /\ delta_calc.pc = "done"
    /\ delta_calc.right = "P"
    /\ delta_calc.low = delta_calc.strike
    /\ delta_calc.high > 2 * delta_calc.strike
    /\ delta_calc.delta_low < delta_calc.delta_high

\* C34: for each option contract, within any 5-second window at most one fresh
\* delta computation (underlying price lookup) is performed; a cached delta is
\* used only while it is younger than 5 seconds, and whenever the cached delta
\* of a contract has expired a fresh computation is permitted on the next
\* get_delta call.
C34_CacheWindow ==
    ~CacheIdle =>
        /\ \A i, j \in 1..Len(cache_run.computed) :
              i < j => cache_run.computed[j] - cache_run.computed[i] >= 5
        /\ \A age \in cache_run.used : age < 5
        /\ ~cache_run.refused

\* C35: calculate_iv terminates for every input after at most 100 bisection
\* iterations.
C35_IvTerminates ==
    ~IvIdle =>
        /\ iv_calc.iterations <= max_iterations
        /\ iv_calc.pc = "loop" => iv_calc.iterations < max_iterations
        /\ iv_calc.pc \in {"called", "loop", "done"}

\* C35: the case is met: a call has returned from the loop without converging
C35_Witness ==
    /\ iv_calc.pc = "done"
    /\ iv_calc.how = "fallthrough"
    /\ iv_calc.iterations > 1

\* |target - aggregate delta| of a key for the positions poss, valued as
\* get_delta values them with no cached delta (tenths of a share)
DistanceToTarget(key, poss) ==
    Abs(entries.target_delta
          - SumDeltas(get_current_positions(key, poss, FALSE), << >>, {}, price).delta)

\* The broker answers every call and the only orders are the ones of a single
\* hedge loop
UndisturbedRun ==
    /\ single
    /\ ~faulty
    /\ \A i \in 1..Len(trades) : trades[i].own

\* C36: with positions changing only through the hedger's own fills, every
\* submitted order filling completely and the per-contract delta constant, a
\* running hedger eventually stops submitting orders with the aggregate delta
\* within the threshold of the target (an evaluation that finds no working
\* order and submits none has the aggregate within the threshold: nothing
\* would move it later); a filled hedge order never leaves |target - aggregate|
\* at or above its value before the order.
C36_HedgeConverges ==
    [][UndisturbedRun =>
          /\ \A t \in ThreadIds :
                (/\ threads[t].pc = "pend"
                 /\ threads'[t].pc = "sleep"
                 /\ threads'[t].outcome \in {"within_threshold", "zero_quantity"})
                    => DistanceToTarget(threads[t].key, positions)
                          <= threads[t].delta_change_threshold
          /\ \A i \in 1..Len(trades) :
                (trades[i].status # "Filled" /\ trades'[i].status = "Filled")
                    => DistanceToTarget(trades[i].key, positions')
                          < DistanceToTarget(trades[i].key, positions)]_vars

\* C37: if the pending-order status of the instrument cannot be determined in
\* a cycle (the open-order query throws), the hedge evaluation submits no order
\* in that cycle: a thread whose query raised does not go on to ib.placeOrder.
C37_NoOrderWhenQueryFails ==
    \A t \in ThreadIds : Trading(t) => ~threads[t].failed

\* C38: once start_auto_hedger has returned True for a key, its hedger stays
\* running until stop_auto_hedger is called for it or its own loop stops: the
\* exit of an earlier loop of the key never sets a running key to not running
\* while a loop started later is alive.
C38_StartedStaysRunning ==
    [][\A t \in ThreadIds :
          (/\ threads[t].pc = "finally"
           /\ threads'[t].pc = "exited"
           /\ IsRunning(threads[t].key)
           /\ ~hedger_status'[threads[t].key])
              => ~\E u \in ThreadIds :
                     u > t /\ threads[u].key = threads[t].key /\ InLoop(u)]_vars

\* C39: each order attempt contributes exactly one record to the recent-alerts
\* buffer, whose status moves from PENDING to its final value; an attempt
\* never leaves two entries for the same order, nor a PENDING record that is
\* never resolved when the submission throws.
C39_OneAlertPerAttempt ==
    \A t \in ThreadIds :
        threads[t].alerts # << >> =>
            /\ Len(threads[t].alerts) = 1
            /\ threads[t].outcome = "order_error" => threads[t].alerts[1] # "PENDING"

====
